---- MODULE Spec2Model ----
(***************************************************************************)
(* Runtime coordination core of the kitchen-robot monitoring rig:          *)
(*   ServiceManager  (src/src/scheduler/service_manager.py)                *)
(*   WorkScheduler   (src/src/scheduler/work_scheduler.py)                 *)
(*   MonitoringSystem wiring and the Flask handlers                        *)
(*                   (src/src/gui/main_app.py)                             *)
(*                                                                         *)
(* Threads.  The scheduler loop runs on its own daemon thread              *)
(* (work_scheduler.py:183); the Flask handlers run on request threads      *)
(* (main_app.py:340-345, threaded=True).  Neither class takes a lock, so   *)
(* every read or write of a shared attribute is one step of the thread     *)
(* that makes it.  A step is one shared access followed by the purely      *)
(* thread-local computation up to the next shared access (returns, loop    *)
(* headers, accumulating a local).                                         *)
(***************************************************************************)
EXTENDS Integers, Sequences, FiniteSets, TLC

\* ------------------------------------------------------------------------
\* Program constants

\* ServiceStatus, service_manager.py:14-20
STOPPED == "stopped"
STARTING == "starting"
RUNNING == "running"
STOPPING == "stopping"
ERROR == "error"
ServiceStatus == {STOPPED, STARTING, RUNNING, STOPPING, ERROR}

\* keys of ServiceManager.services in insertion order, service_manager.py:32-51
ServiceOrder == <<"camera", "vibration", "frying">>
Services == {ServiceOrder[i] : i \in 1..Len(ServiceOrder)}

\* values of services[id]['error_message']
NoMessage == "None"
FailedToStart == "Failed to start"
NotRegistered == "Service instance not registered"
HandleError == "handle raised"
Messages == {NoMessage, FailedToStart, NotRegistered, HandleError}

\* An instance handle is what hasattr() can tell about it.  The three classes
\* the dashboards register (main_app.py:140, dash_app.py:198,213,225):
\*   CameraBase          none of the probed names
\*   VibrationDetector   start_monitoring, stop_monitoring, cleanup
\*   FryingDataCollector start_session, stop_session, cleanup
NoInstance == [registered |-> FALSE, attrs |-> {}]
CameraBase == [registered |-> TRUE, attrs |-> {}]
VibrationDetector ==
    [registered |-> TRUE, attrs |-> {"start_monitoring", "stop_monitoring", "cleanup"}]
FryingDataCollector ==
    [registered |-> TRUE, attrs |-> {"start_session", "stop_session", "cleanup"}]
\* a camera service as _start_camera_service assumes it
\* (service_manager.py:231-233): it has start_monitoring / stop_monitoring
CameraMonitor ==
    [registered |-> TRUE, attrs |-> {"start_monitoring", "stop_monitoring"}]
Handles == {CameraBase, CameraMonitor, VibrationDetector, FryingDataCollector}
\* the register_service calls of the dashboards
Registrations ==
    {<<"camera", CameraBase>>, <<"camera", CameraMonitor>>,
     <<"vibration", VibrationDetector>>, <<"frying", FryingDataCollector>>}

\* the threads: the scheduler loop thread and a manual-control (request) thread
Threads == {"loop", "api"}

VARIABLES
    status,             \* services[id]['status']
    error_message,      \* services[id]['error_message']
    instance,           \* services[id]['instance']
    start_callback,     \* WorkScheduler.start_callback: "None", "system", "any"
    stop_callback,      \* WorkScheduler.stop_callback
    is_running,         \* WorkScheduler.is_running
    manual_override,    \* WorkScheduler.manual_override
    services_started,   \* WorkScheduler.services_started
    auto_start_enabled, \* WorkScheduler.auto_start_enabled
    auto_stop_enabled,  \* WorkScheduler.auto_stop_enabled
    schedule,           \* WorkScheduler.schedule
    th,                 \* per thread: program counter and locals
    lastCall,           \* history: the last finished start_service/stop_service
    tickLog,            \* history: what the loop's last finished tick did
    clock,              \* is_work_time: the datetime.now() of the last call
    work_time,          \* is_work_time: what the last call returned
    on_triggered,       \* IntegratedMonitorApp.on_triggered
    det_hold_start,     \* .det_hold_start (a wall-clock reading or NoTime)
    night_check_active, \* .night_check_active: night stage 1 is on
    night_no_person_deadline, \* .night_no_person_deadline
    off_triggered_once, \* .off_triggered_once
    prev_daytime,       \* .prev_daytime: "None", "True", "False"
    last_snapshot_tick, \* .last_snapshot_tick (a monotonic reading or NoTime)
    frame_idx,          \* .frame_idx
    yolo_frame_skip,    \* .yolo_frame_skip
    FORCE_MODE,         \* the module's FORCE_MODE: "auto", "day", "night"
    mqtt_client,        \* .mqtt_client: "None" or "Client"
    gate_pc,            \* update_auto_system: "idle", or "process"
    frame,              \* what the tick under way has read; the last
                        \* monotonic reading
    emitted,            \* what the last step emitted: "ON", "OFF", "SNAP"
    seen,               \* history of the gate
    analyzer,           \* the VibrationAnalyzer's fields
    detector,           \* the VibrationDetector's fields; its session log
    sampler,            \* the monitoring thread: position, reading
    reader,             \* the analyzer's caller: position, what it got
    heard,              \* history of the vibration pipeline
    roundtrip           \* a CSV row written and parsed again

smVars == <<status, error_message, instance>>
wsVars == <<start_callback, stop_callback, is_running, manual_override,
            services_started, auto_start_enabled, auto_stop_enabled, schedule>>
vars == <<status, error_message, instance, start_callback, stop_callback,
          is_running, manual_override, services_started, auto_start_enabled,
          auto_stop_enabled, schedule, th, lastCall, tickLog, clock, work_time,
          on_triggered, det_hold_start, night_check_active,
          night_no_person_deadline, off_triggered_once, prev_daytime,
          last_snapshot_tick, frame_idx, yolo_frame_skip, FORCE_MODE, mqtt_client,
                   gate_pc,
          frame, emitted, seen, analyzer, detector, sampler, reader, heard,
          roundtrip>>

\* the variables of a direct is_work_time call
clockVars == <<clock, work_time>>

\* ------------------------------------------------------------------------
\* Thread-local state

\* th[t].pc    where the thread is
\*      .top   the outermost operation in progress ("idle" when none)
\*      .agg   "start_all"/"stop_all" while inside start_all_services /
\*             stop_all_services, else "none"
\*      .idx   position of the for loop over services.keys()
\*      .sid   service_id of the start_service/stop_service in progress
\*      .acc   start_all_services' local `success`
\*      .cwt   the loop's local `current_work_time`
\*      .exc   the message start_service/stop_service is about to record
\*      .ret   what the last finished call gave its caller: "True", "False",
\*             "None" (returned nothing) or "raised"
\* history kept per thread (never read by the program):
\*      .how   the path of the service call in progress: "none" until the
\*             handle is reached, then "ran" (its method returned normally),
\*             "failed" (start returned a falsy value), "raised",
\*             "nomethod" (hasattr found no method), "noinst" (no instance)
\*      .att   the <<service id, result>> pairs of the last start_all
\*      .cbs   callbacks invoked by the loop in the tick in progress
\*      .arg   the arguments of the update_schedule in progress
\* An optional argument is [none |-> TRUE, ...] for None; a str is the
\* sequence of its characters.
NoneStr == [none |-> TRUE, text |-> <<>>]
Str(cs) == [none |-> FALSE, text |-> cs]
NoneDays == [none |-> TRUE, days |-> {}]
Days(d) == [none |-> FALSE, days |-> d]
NoArgs == [start_time |-> NoneStr, end_time |-> NoneStr, enabled_days |-> NoneDays]

IdleThread ==
    [pc |-> "idle", top |-> "idle", agg |-> "none", idx |-> 0, sid |-> "none",
     acc |-> TRUE, cwt |-> FALSE, exc |-> NoMessage, ret |-> "None",
     how |-> "none", att |-> <<>>, cbs |-> <<>>, arg |-> NoArgs]

Bool2Ret(b) == IF b THEN "True" ELSE "False"

\* ------------------------------------------------------------------------
\* Returning: the thread-local continuation after a call returns

\* the outermost operation returns v to its caller (a Flask handler, or
\* whoever called force_start/force_stop)
Finish(r, v) ==
    [IdleThread EXCEPT !.ret = v,
                       !.att = IF r.top = "start_all" THEN r.att ELSE <<>>]

\* start_all_services / stop_all_services returns v: back in the callback's
\* caller (WorkScheduler), or in the Flask handler
ReturnFromAll(r, v) ==
    LET back == [r EXCEPT !.ret = v, !.agg = "none", !.sid = "none",
                          !.idx = 0, !.how = "none", !.acc = TRUE,
                          !.exc = NoMessage]
    IN  CASE r.top = "tick" /\ r.agg = "start_all" ->
                [back EXCEPT !.pc = "cb_start_ret"]
          [] r.top = "tick" /\ r.agg = "stop_all" ->
                [back EXCEPT !.pc = "cb_stop_ret"]
          [] r.top = "force_start" -> [back EXCEPT !.pc = "fs_ret"]
          [] r.top = "force_stop" -> [back EXCEPT !.pc = "fp_ret"]
          [] OTHER -> Finish(r, v)

\* start_service returned b inside start_all_services (lines 173-177):
\* `if not self.start_service(id): success = False`, then the next key
AfterStartInAll(r, b) ==
    LET acc2 == r.acc /\ b
        att2 == Append(r.att, <<r.sid, b>>)
    IN  IF r.idx < Len(ServiceOrder)
        THEN [r EXCEPT !.pc = "ss_check", !.idx = r.idx + 1,
                       !.sid = ServiceOrder[r.idx + 1], !.acc = acc2,
                       !.att = att2, !.how = "none", !.exc = NoMessage]
        ELSE ReturnFromAll([r EXCEPT !.att = att2], Bool2Ret(acc2))

\* stop_service returned inside stop_all_services (lines 183-184)
AfterStopInAll(r) ==
    IF r.idx < Len(ServiceOrder)
    THEN [r EXCEPT !.pc = "sp_check", !.idx = r.idx + 1,
                   !.sid = ServiceOrder[r.idx + 1], !.how = "none",
                   !.exc = NoMessage]
    ELSE ReturnFromAll(r, "None")

\* start_service returns b
ReturnFromStart(r, b) ==
    IF r.agg = "start_all" THEN AfterStartInAll(r, b)
    ELSE Finish(r, Bool2Ret(b))

\* stop_service returns
ReturnFromStop(r) ==
    IF r.agg = "stop_all" THEN AfterStopInAll(r)
    ELSE Finish(r, "None")

\* entering start_all_services (lines 170-174): success = True and the first
\* key of services
EnterStartAll(r) ==
    [r EXCEPT !.pc = "ss_check", !.agg = "start_all", !.idx = 1,
              !.sid = ServiceOrder[1], !.acc = TRUE, !.att = <<>>,
              !.how = "none", !.ret = "None"]

\* entering stop_all_services (lines 181-184)
EnterStopAll(r) ==
    [r EXCEPT !.pc = "sp_check", !.agg = "stop_all", !.idx = 1,
              !.sid = ServiceOrder[1], !.how = "none", !.att = <<>>,
              !.ret = "None"]

\* ------------------------------------------------------------------------
\* History variables (observations; the program never reads them)

NoCall == [op |-> "none", sid |-> "none", ret |-> "None", how |-> "none"]
\* the value of lastCall in the specifications that keep no call history
CallsNotKept == [op |-> "off", sid |-> "none", ret |-> "None", how |-> "none"]

\* thread record r became r2 in a step that returned from start_service or
\* stop_service
CallEnded(r, r2) ==
    \/ r.pc \in {"ss_set_running", "ss_set_message",
                 "sp_set_stopped", "sp_set_message"}
    \/ r.pc = "ss_check" /\ r2.pc # "ss_set_starting"
    \/ r.pc = "sp_check" /\ r2.pc # "sp_set_stopping"

\* the call that ended: which, on which id, the value its caller received,
\* and its path ("early": it returned from its status check)
CallRecord(r, r2) ==
    LET op == IF r.pc \in {"ss_check", "ss_set_running", "ss_set_message"}
              THEN "start" ELSE "stop"
    IN  [op |-> op, sid |-> r.sid,
         ret |-> IF op = "stop" THEN "None"
                 ELSE IF r.agg = "start_all"
                 THEN Bool2Ret(r2.att[Len(r2.att)][2])
                 ELSE r2.ret,
         how |-> IF r.pc \in {"ss_check", "sp_check"} THEN "early" ELSE r.how]

ObserveCall(t) ==
    lastCall' = IF lastCall # CallsNotKept /\ CallEnded(th[t], th'[t])
                THEN CallRecord(th[t], th'[t])
                ELSE lastCall

\* tickLog: the callback the loop's last finished tick invoked and what the
\* callback gave back
NoTick == [cb |-> "none", ret |-> "None"]
\* the value of tickLog in the specifications that keep no tick history
TicksNotKept == [cb |-> "off", ret |-> "None"]
\* a manual call changed services_started since the last tick decided
TickDisturbed == [cb |-> "manual", ret |-> "None"]

ObserveTick(t) ==
    tickLog' =
        IF tickLog = TicksNotKept THEN tickLog
        ELSE IF t = "loop"
        THEN CASE th[t].pc \in {"cb_start_ret", "cb_stop_ret"} ->
                    IF tickLog = TickDisturbed THEN tickLog
                    ELSE [cb |-> IF th[t].pc = "cb_start_ret" THEN "start"
                                 ELSE "stop",
                          ret |-> th[t].ret]
               [] th[t].pc \in {"tick_override", "tick_decide"} ->
                    IF th'[t].pc = "loop_top" \/ tickLog = TickDisturbed
                    THEN NoTick ELSE tickLog
               [] OTHER -> tickLog
        ELSE IF services_started' # services_started THEN TickDisturbed
        ELSE tickLog

\* every action ends by recording its observations
History(t) ==
    /\ ObserveCall(t)
    /\ ObserveTick(t)
    /\ UNCHANGED clockVars
    /\ UNCHANGED <<on_triggered, det_hold_start, night_check_active,
                   night_no_person_deadline, off_triggered_once,
                   prev_daytime, last_snapshot_tick, frame_idx,
                   yolo_frame_skip, FORCE_MODE, mqtt_client,
                   gate_pc, frame, emitted,
                   seen>>
    /\ UNCHANGED <<analyzer, detector, sampler, reader, heard, roundtrip>>

\* ------------------------------------------------------------------------
\* ServiceManager: the duck-typed dispatch (lines 229-279)

\* the handle method _start_<id>_service calls, "none" when it only logs an
\* error and returns False
StartMethod(sid, attrs) ==
    CASE sid = "camera" ->
            IF "start_monitoring" \in attrs THEN "start_monitoring"
            ELSE IF "start" \in attrs THEN "start" ELSE "none"
      [] sid = "vibration" ->
            IF "start_monitoring" \in attrs THEN "start_monitoring" ELSE "none"
      [] sid = "frying" ->
            IF "start_session" \in attrs THEN "start_session"
            ELSE IF "start" \in attrs THEN "start" ELSE "none"
      [] OTHER -> "none"

\* the handle method _stop_<id>_service calls, "none" when it calls nothing
StopMethod(sid, attrs) ==
    CASE sid = "camera" ->
            IF "stop_monitoring" \in attrs THEN "stop_monitoring"
            ELSE IF "stop" \in attrs THEN "stop"
            ELSE IF "cleanup" \in attrs THEN "cleanup" ELSE "none"
      [] sid = "vibration" ->
            IF "stop_monitoring" \in attrs THEN "stop_monitoring" ELSE "none"
      [] sid = "frying" ->
            IF "stop_session" \in attrs THEN "stop_session"
            ELSE IF "stop" \in attrs THEN "stop" ELSE "none"
      [] OTHER -> "none"

\* what a handle's start method can do: return a truthy value, return a
\* falsy value, raise
StartOutcomes == {"True", "False", "raise"}
\* what a handle's stop method can do
StopOutcomes == {"return", "raise"}

\* ------------------------------------------------------------------------
\* ServiceManager.register_service (lines 53-65)

RegisterService(t, sid, h) ==
    /\ th[t].pc = "idle"
    /\ instance' = IF sid \in Services THEN [instance EXCEPT ![sid] = h]
                   ELSE instance
    /\ UNCHANGED <<status, error_message, wsVars, th>>
    /\ History(t)

\* ------------------------------------------------------------------------
\* ServiceManager.start_service (lines 67-120), one action per shared access

\* variant of line 83 in which no status returns early
C3_NeverEarly(st) == FALSE

\* line 83: the status the call finds; RUNNING returns True at once
StartReturnsEarly(st) == st = RUNNING

\* lines 77-85
SSCheck(t) ==
    LET r == th[t] IN
    /\ r.pc = "ss_check"
    /\ th' = [th EXCEPT ![t] =
                IF StartReturnsEarly(status[r.sid])
                THEN ReturnFromStart(r, TRUE)
                ELSE [r EXCEPT !.pc = "ss_set_starting"]]
    /\ UNCHANGED <<smVars, wsVars>>
    /\ History(t)

\* variant of start_service without the write of line 87
C1_SkipStarting(t) ==
    LET r == th[t] IN
    /\ r.pc = "ss_set_starting"
    /\ th' = [th EXCEPT ![t] = [r EXCEPT !.pc = "ss_clear_err"]]
    /\ UNCHANGED <<smVars, wsVars>>
    /\ History(t)

\* line 87
SSSetStarting(t) ==
    LET r == th[t] IN
    /\ r.pc = "ss_set_starting"
    /\ status' = [status EXCEPT ![r.sid] = STARTING]
    /\ th' = [th EXCEPT ![t] = [r EXCEPT !.pc = "ss_clear_err"]]
    /\ UNCHANGED <<error_message, instance, wsVars>>
    /\ History(t)

\* line 88
SSClearError(t) ==
    LET r == th[t] IN
    /\ r.pc = "ss_clear_err"
    /\ error_message' = [error_message EXCEPT ![r.sid] = NoMessage]
    /\ th' = [th EXCEPT ![t] = [r EXCEPT !.pc = "ss_invoke"]]
    /\ UNCHANGED <<status, instance, wsVars>>
    /\ History(t)

\* where start_service goes after lines 91-104: the handle is missing
\* (raise, line 94), has no start method (success = False), or its start
\* method ran with outcome o
AfterStartInvoke(r, inst, o) ==
    LET m == StartMethod(r.sid, inst.attrs) IN
    IF ~inst.registered
    THEN [r EXCEPT !.pc = "ss_set_error", !.exc = NotRegistered,
                   !.how = "noinst"]
    ELSE IF m = "none"
    THEN [r EXCEPT !.pc = "ss_set_error", !.exc = FailedToStart,
                   !.how = "nomethod"]
    ELSE CASE o = "True" ->
                 [r EXCEPT !.pc = "ss_set_running", !.how = "ran"]
           [] o = "False" ->
                 [r EXCEPT !.pc = "ss_set_error", !.exc = FailedToStart,
                           !.how = "failed"]
           [] OTHER ->
                 [r EXCEPT !.pc = "ss_set_error", !.exc = HandleError,
                           !.how = "raised"]

\* lines 91-104: read the instance and call the service-specific start
SSInvoke(t) ==
    LET r == th[t] IN
    /\ r.pc = "ss_invoke"
    /\ \E o \in StartOutcomes :
          th' = [th EXCEPT ![t] = AfterStartInvoke(r, instance[r.sid], o)]
    /\ UNCHANGED <<smVars, wsVars>>
    /\ History(t)

\* lines 107-109
SSSetRunning(t) ==
    LET r == th[t] IN
    /\ r.pc = "ss_set_running"
    /\ status' = [status EXCEPT ![r.sid] = RUNNING]
    /\ th' = [th EXCEPT ![t] = ReturnFromStart(r, TRUE)]
    /\ UNCHANGED <<error_message, instance, wsVars>>
    /\ History(t)

\* line 111 and line 117
SSSetError(t) ==
    LET r == th[t] IN
    /\ r.pc = "ss_set_error"
    /\ status' = [status EXCEPT ![r.sid] = ERROR]
    /\ th' = [th EXCEPT ![t] = [r EXCEPT !.pc = "ss_set_message"]]
    /\ UNCHANGED <<error_message, instance, wsVars>>
    /\ History(t)

\* variant of lines 112 and 118 that records no text
C4_NoFailureMessage(r) == NoMessage

\* the text start_service records after a failure (lines 112, 118)
StartFailureMessage(r) == r.exc

\* lines 112-114 and lines 118-120
SSSetMessage(t) ==
    LET r == th[t] IN
    /\ r.pc = "ss_set_message"
    /\ error_message' = [error_message EXCEPT ![r.sid] = StartFailureMessage(r)]
    /\ th' = [th EXCEPT ![t] = ReturnFromStart(r, FALSE)]
    /\ UNCHANGED <<status, instance, wsVars>>
    /\ History(t)

\* ------------------------------------------------------------------------
\* ServiceManager.stop_service (lines 122-161)

\* line 135: the status the call finds; STOPPED returns at once
StopReturnsEarly(st) == st = STOPPED

\* lines 129-137
SPCheck(t) ==
    LET r == th[t] IN
    /\ r.pc = "sp_check"
    /\ th' = [th EXCEPT ![t] =
                IF StopReturnsEarly(status[r.sid])
                THEN ReturnFromStop(r)
                ELSE [r EXCEPT !.pc = "sp_set_stopping"]]
    /\ UNCHANGED <<smVars, wsVars>>
    /\ History(t)

\* line 139
SPSetStopping(t) ==
    LET r == th[t] IN
    /\ r.pc = "sp_set_stopping"
    /\ status' = [status EXCEPT ![r.sid] = STOPPING]
    /\ th' = [th EXCEPT ![t] = [r EXCEPT !.pc = "sp_invoke"]]
    /\ UNCHANGED <<error_message, instance, wsVars>>
    /\ History(t)

\* where stop_service goes after lines 142-153
AfterStopInvoke(r, inst, o) ==
    LET m == StopMethod(r.sid, inst.attrs) IN
    IF ~inst.registered
    THEN [r EXCEPT !.pc = "sp_set_error", !.exc = NotRegistered,
                   !.how = "noinst"]
    ELSE IF m = "none"
    THEN [r EXCEPT !.pc = "sp_set_stopped", !.how = "nomethod"]
    ELSE IF o = "return"
    THEN [r EXCEPT !.pc = "sp_set_stopped", !.how = "ran"]
    ELSE [r EXCEPT !.pc = "sp_set_error", !.exc = HandleError,
                   !.how = "raised"]

\* lines 142-153: read the instance and call the service-specific stop
SPInvoke(t) ==
    LET r == th[t] IN
    /\ r.pc = "sp_invoke"
    /\ \E o \in StopOutcomes :
          th' = [th EXCEPT ![t] = AfterStopInvoke(r, instance[r.sid], o)]
    /\ UNCHANGED <<smVars, wsVars>>
    /\ History(t)

\* lines 155-156
SPSetStopped(t) ==
    LET r == th[t] IN
    /\ r.pc = "sp_set_stopped"
    /\ status' = [status EXCEPT ![r.sid] = STOPPED]
    /\ th' = [th EXCEPT ![t] = ReturnFromStop(r)]
    /\ UNCHANGED <<error_message, instance, wsVars>>
    /\ History(t)

\* line 159
SPSetError(t) ==
    LET r == th[t] IN
    /\ r.pc = "sp_set_error"
    /\ status' = [status EXCEPT ![r.sid] = ERROR]
    /\ th' = [th EXCEPT ![t] = [r EXCEPT !.pc = "sp_set_message"]]
    /\ UNCHANGED <<error_message, instance, wsVars>>
    /\ History(t)

\* lines 160-161
SPSetMessage(t) ==
    LET r == th[t] IN
    /\ r.pc = "sp_set_message"
    /\ error_message' = [error_message EXCEPT ![r.sid] = r.exc]
    /\ th' = [th EXCEPT ![t] = ReturnFromStop(r)]
    /\ UNCHANGED <<status, instance, wsVars>>
    /\ History(t)

\* a step inside start_service or stop_service
ServiceStep(t) ==
    \/ SSCheck(t) \/ SSSetStarting(t) \/ SSClearError(t) \/ SSInvoke(t)
    \/ SSSetRunning(t) \/ SSSetError(t) \/ SSSetMessage(t)
    \/ SPCheck(t) \/ SPSetStopping(t) \/ SPInvoke(t)
    \/ SPSetStopped(t) \/ SPSetError(t) \/ SPSetMessage(t)

\* ------------------------------------------------------------------------
\* The ServiceManager calls of the Flask handlers (main_app.py:228-265).  The
\* service id of the single-service routes comes from the URL and may be no
\* key of services.

ApiIds == Services \cup {"unknown"}

\* api_start_service -> start_service(service_id); lines 77-79 for unknown ids
ApiStartService(t, sid) ==
    /\ th[t].pc = "idle"
    /\ th' = [th EXCEPT ![t] =
                IF sid \in Services
                THEN [IdleThread EXCEPT !.pc = "ss_check", !.top = "start",
                                        !.sid = sid]
                ELSE Finish([IdleThread EXCEPT !.top = "start"], "False")]
    /\ UNCHANGED <<smVars, wsVars>>
    /\ History(t)

\* api_stop_service -> stop_service(service_id); lines 129-131 for unknown ids
ApiStopService(t, sid) ==
    /\ th[t].pc = "idle"
    /\ th' = [th EXCEPT ![t] =
                IF sid \in Services
                THEN [IdleThread EXCEPT !.pc = "sp_check", !.top = "stop",
                                        !.sid = sid]
                ELSE Finish([IdleThread EXCEPT !.top = "stop"], "None")]
    /\ UNCHANGED <<smVars, wsVars>>
    /\ History(t)

\* api_start_all_services -> start_all_services (lines 163-177)
ApiStartAll(t) ==
    /\ th[t].pc = "idle"
    /\ th' = [th EXCEPT ![t] =
                EnterStartAll([IdleThread EXCEPT !.top = "start_all"])]
    /\ UNCHANGED <<smVars, wsVars>>
    /\ History(t)

\* api_stop_all_services -> stop_all_services (lines 179-184)
ApiStopAll(t) ==
    /\ th[t].pc = "idle"
    /\ th' = [th EXCEPT ![t] =
                EnterStopAll([IdleThread EXCEPT !.top = "stop_all"])]
    /\ UNCHANGED <<smVars, wsVars>>
    /\ History(t)

\* ------------------------------------------------------------------------
\* WorkScheduler.is_work_time (work_scheduler.py:105-130)

\* a time of day in seconds, as datetime.time compares
TimeOfDay(h, m, sec) == h * 3600 + m * 60 + sec

\* variant of line 127 with the end of the window excluded
C11_ExclusiveEnd(sch, now) ==
    LET current == TimeOfDay(now.hour, now.minute, now.second)
        start == TimeOfDay(sch.start_hour, sch.start_minute, 0)
        end == TimeOfDay(sch.end_hour, sch.end_minute, 0)
    IN  IF now.weekday \notin sch.enabled_days THEN FALSE
        ELSE IF start <= end THEN start <= current /\ current < end
        ELSE current >= start \/ current <= end

\* variant of line 117 that, after midnight in an overnight window, asks for
\* the weekday on which the window began
C12_WindowStartDay(sch, now) ==
    LET current == TimeOfDay(now.hour, now.minute, now.second)
        start == TimeOfDay(sch.start_hour, sch.start_minute, 0)
        end == TimeOfDay(sch.end_hour, sch.end_minute, 0)
        day == IF start > end /\ current <= end THEN (now.weekday + 6) % 7
               ELSE now.weekday
    IN  IF day \notin sch.enabled_days THEN FALSE
        ELSE IF start <= end THEN start <= current /\ current <= end
        ELSE current >= start \/ current <= end

\* now = [hour, minute, second, weekday]
IsWorkTime(sch, now) ==
    LET current == TimeOfDay(now.hour, now.minute, now.second)
        start == TimeOfDay(sch.start_hour, sch.start_minute, 0)
        end == TimeOfDay(sch.end_hour, sch.end_minute, 0)
    IN  IF now.weekday \notin sch.enabled_days THEN FALSE
        ELSE IF start <= end THEN start <= current /\ current <= end
        ELSE current >= start \/ current <= end

\* the schedule of the default configuration (main_app.py:109-113)
DefaultSchedule ==
    [start_hour |-> 8, start_minute |-> 30, end_hour |-> 19, end_minute |-> 0,
     enabled_days |-> 0..6]

\* the value of clock before is_work_time was ever called directly
NoReading == [hour |-> 0, minute |-> 0, second |-> 0, weekday |-> 0]

\* the clock readings a tick may see: inside and outside the default hours
ClockSamples ==
    {[hour |-> 12, minute |-> 0, second |-> 0, weekday |-> 0],
     [hour |-> 20, minute |-> 0, second |-> 0, weekday |-> 0]}

\* ------------------------------------------------------------------------
\* WorkScheduler._scheduler_loop (work_scheduler.py:187-218)

\* what a start callback can do when it is an arbitrary callable
CallbackOutcomes == {"True", "False", "raised"}
\* what a stop callback can do when it is an arbitrary callable
StopCallbackOutcomes == {"None", "raised"}

\* line 191: `while self.is_running`; the thread ends when it reads False
LoopTop(t) ==
    LET r == th[t] IN
    /\ r.pc = "loop_top"
    /\ th' = [th EXCEPT ![t] =
                IF is_running
                THEN [r EXCEPT !.pc = "tick_override", !.top = "tick"]
                ELSE [r EXCEPT !.pc = "dead"]]
    /\ UNCHANGED <<smVars, wsVars>>
    /\ History(t)

\* the end of a tick: time.sleep(check_interval), line 216, then line 191
EndTick(r) == [IdleThread EXCEPT !.pc = "loop_top", !.cwt = r.cwt]

\* variant of the loop without the try/except of lines 193, 213-214: an
\* exception of a callback ends the thread
C9_RaiseEndsLoop(r) ==
    IF r.ret = "raised" THEN [IdleThread EXCEPT !.pc = "dead", !.cwt = r.cwt]
    ELSE EndTick(r)

\* where the loop goes after a callback raised or returned: the except
\* clause of lines 213-214 logs and the loop goes on
AfterCallback(r) == EndTick(r)

\* line 194: `if not self.manual_override`
TickOverride(t) ==
    LET r == th[t] IN
    /\ r.pc = "tick_override"
    /\ th' = [th EXCEPT ![t] =
                IF manual_override THEN EndTick(r)
                ELSE [r EXCEPT !.pc = "tick_decide"]]
    /\ UNCHANGED <<smVars, wsVars>>
    /\ History(t)

\* variant of line 198 without `and self.auto_start_enabled`
C7_IgnoreAutoStart(cwt, started, autoStart, autoStop) ==
    IF cwt /\ ~started THEN "start"
    ELSE IF ~cwt /\ started /\ autoStop THEN "stop"
    ELSE "none"

\* lines 198 and 207: which callback the tick invokes
TickBranch(cwt, started, autoStart, autoStop) ==
    IF cwt /\ ~started /\ autoStart THEN "start"
    ELSE IF ~cwt /\ started /\ autoStop THEN "stop"
    ELSE "none"

\* lines 195-207: compute is_work_time(), read services_started, branch
TickDecide(t) ==
    LET r == th[t] IN
    /\ r.pc = "tick_decide"
    /\ \E now \in ClockSamples :
         LET cwt == IsWorkTime(schedule, now)
             b == TickBranch(cwt, services_started, auto_start_enabled,
                             auto_stop_enabled)
         IN  th' = [th EXCEPT ![t] =
                      CASE b = "start" ->
                              [r EXCEPT !.cwt = cwt, !.pc = "cb_start_call"]
                        [] b = "stop" ->
                              [r EXCEPT !.cwt = cwt, !.pc = "cb_stop_call"]
                        [] OTHER -> EndTick([r EXCEPT !.cwt = cwt])]
    /\ UNCHANGED <<smVars, wsVars>>
    /\ History(t)

\* line 200: self.start_callback() is entered.  The callback MonitoringSystem
\* installs is start_all_services (main_app.py:148-165); any other callable
\* returns a truthy value, a falsy value, or raises.
TickCallStart(t) ==
    LET r == th[t]
        r2 == [r EXCEPT !.cbs = Append(r.cbs, "start")]
    IN
    /\ r.pc = "cb_start_call"
    /\ IF start_callback = "system"
       THEN th' = [th EXCEPT ![t] = EnterStartAll(r2)]
       ELSE \E o \in CallbackOutcomes :
               th' = [th EXCEPT ![t] =
                        [r2 EXCEPT !.pc = "cb_start_ret", !.ret = o]]
    /\ UNCHANGED <<smVars, wsVars>>
    /\ History(t)

\* variant of lines 201 and 255 that takes every returned value for success
C10_AnyResult(ret) == ret # "raised"

\* lines 200-204 after the callback, and 213-214 when it raised: whether
\* services_started is set
StartSucceeded(ret) == ret = "True"

TickStartReturn(t) ==
    LET r == th[t] IN
    /\ r.pc = "cb_start_ret"
    /\ services_started' = IF StartSucceeded(r.ret) THEN TRUE
                           ELSE services_started
    /\ th' = [th EXCEPT ![t] = AfterCallback(r)]
    /\ UNCHANGED <<smVars, start_callback, stop_callback, is_running,
                   manual_override, auto_start_enabled, auto_stop_enabled,
                   schedule>>
    /\ History(t)

\* line 209: self.stop_callback() is entered
TickCallStop(t) ==
    LET r == th[t]
        r2 == [r EXCEPT !.cbs = Append(r.cbs, "stop")]
    IN
    /\ r.pc = "cb_stop_call"
    /\ IF stop_callback = "system"
       THEN th' = [th EXCEPT ![t] = EnterStopAll(r2)]
       ELSE \E o \in StopCallbackOutcomes :
               th' = [th EXCEPT ![t] =
                        [r2 EXCEPT !.pc = "cb_stop_ret", !.ret = o]]
    /\ UNCHANGED <<smVars, wsVars>>
    /\ History(t)

\* lines 209-211: after the stop callback services_started is cleared; an
\* exception skips line 210 (lines 213-214)
StopCompleted(ret) == ret # "raised"

TickStopReturn(t) ==
    LET r == th[t] IN
    /\ r.pc = "cb_stop_ret"
    /\ services_started' = IF StopCompleted(r.ret) THEN FALSE
                           ELSE services_started
    /\ th' = [th EXCEPT ![t] = AfterCallback(r)]
    /\ UNCHANGED <<smVars, start_callback, stop_callback, is_running,
                   manual_override, auto_start_enabled, auto_stop_enabled,
                   schedule>>
    /\ History(t)

\* a step of the scheduler loop outside the callbacks
LoopStep(t) ==
    \/ LoopTop(t) \/ TickOverride(t) \/ TickDecide(t)
    \/ TickCallStart(t) \/ TickStartReturn(t)
    \/ TickCallStop(t) \/ TickStopReturn(t)

\* ------------------------------------------------------------------------
\* WorkScheduler: manual control (work_scheduler.py:220-269)

\* variant of enable_manual_override that also clears services_started, as
\* force_stop does
C13_EnableAndClear(t) ==
    /\ th[t].pc = "idle"
    /\ manual_override' = TRUE
    /\ services_started' = FALSE
    /\ UNCHANGED <<smVars, start_callback, stop_callback, is_running,
                   auto_start_enabled, auto_stop_enabled, schedule, th>>
    /\ History(t)

\* enable_manual_override (lines 232-235); api_scheduler_override with
\* enable = true (main_app.py:277-278)
EnableManualOverride(t) ==
    /\ th[t].pc = "idle"
    /\ manual_override' = TRUE
    /\ UNCHANGED <<smVars, start_callback, stop_callback, is_running,
                   services_started, auto_start_enabled, auto_stop_enabled,
                   schedule, th>>
    /\ History(t)

\* disable_manual_override (lines 237-240)
DisableManualOverride(t) ==
    /\ th[t].pc = "idle"
    /\ manual_override' = FALSE
    /\ UNCHANGED <<smVars, start_callback, stop_callback, is_running,
                   services_started, auto_start_enabled, auto_stop_enabled,
                   schedule, th>>
    /\ History(t)

\* stop_scheduler (lines 220-230): clears is_running; the join only makes the
\* caller wait up to two seconds
StopScheduler(t) ==
    /\ th[t].pc = "idle"
    /\ is_running
    /\ is_running' = FALSE
    /\ UNCHANGED <<smVars, start_callback, stop_callback, manual_override,
                   services_started, auto_start_enabled, auto_stop_enabled,
                   schedule, th>>
    /\ History(t)

\* force_start, lines 249-251: without a start callback it returns False
ForceStartBegin(t) ==
    /\ th[t].pc = "idle"
    /\ th' = [th EXCEPT ![t] =
                IF start_callback = "None"
                THEN Finish([IdleThread EXCEPT !.top = "force_start"], "False")
                ELSE [IdleThread EXCEPT !.pc = "fs_override",
                                        !.top = "force_start"]]
    /\ UNCHANGED <<smVars, wsVars>>
    /\ History(t)

\* line 253: self.enable_manual_override()
ForceStartOverride(t) ==
    LET r == th[t] IN
    /\ r.pc = "fs_override"
    /\ manual_override' = TRUE
    /\ th' = [th EXCEPT ![t] = [r EXCEPT !.pc = "fs_call"]]
    /\ UNCHANGED <<smVars, start_callback, stop_callback, is_running,
                   services_started, auto_start_enabled, auto_stop_enabled,
                   schedule>>
    /\ History(t)

\* line 254: result = self.start_callback(); an exception leaves force_start
ForceStartCall(t) ==
    LET r == th[t] IN
    /\ r.pc = "fs_call"
    /\ IF start_callback = "system"
       THEN th' = [th EXCEPT ![t] = EnterStartAll(r)]
       ELSE \E o \in CallbackOutcomes :
               th' = [th EXCEPT ![t] =
                        IF o = "raised" THEN Finish(r, "raised")
                        ELSE [r EXCEPT !.pc = "fs_ret", !.ret = o]]
    /\ UNCHANGED <<smVars, wsVars>>
    /\ History(t)

\* lines 255-258
ForceStartReturn(t) ==
    LET r == th[t] IN
    /\ r.pc = "fs_ret"
    /\ services_started' = IF StartSucceeded(r.ret) THEN TRUE
                           ELSE services_started
    /\ th' = [th EXCEPT ![t] = Finish(r, r.ret)]
    /\ UNCHANGED <<smVars, start_callback, stop_callback, is_running,
                   manual_override, auto_start_enabled, auto_stop_enabled,
                   schedule>>
    /\ History(t)

\* force_stop, lines 262-264: without a stop callback it returns
ForceStopBegin(t) ==
    /\ th[t].pc = "idle"
    /\ th' = [th EXCEPT ![t] =
                IF stop_callback = "None"
                THEN Finish([IdleThread EXCEPT !.top = "force_stop"], "None")
                ELSE [IdleThread EXCEPT !.pc = "fp_override",
                                        !.top = "force_stop"]]
    /\ UNCHANGED <<smVars, wsVars>>
    /\ History(t)

\* line 266
ForceStopOverride(t) ==
    LET r == th[t] IN
    /\ r.pc = "fp_override"
    /\ manual_override' = TRUE
    /\ th' = [th EXCEPT ![t] = [r EXCEPT !.pc = "fp_call"]]
    /\ UNCHANGED <<smVars, start_callback, stop_callback, is_running,
                   services_started, auto_start_enabled, auto_stop_enabled,
                   schedule>>
    /\ History(t)

\* line 267: self.stop_callback(); an exception leaves force_stop
ForceStopCall(t) ==
    LET r == th[t] IN
    /\ r.pc = "fp_call"
    /\ IF stop_callback = "system"
       THEN th' = [th EXCEPT ![t] = EnterStopAll(r)]
       ELSE \E o \in StopCallbackOutcomes :
               th' = [th EXCEPT ![t] =
                        IF o = "raised" THEN Finish(r, "raised")
                        ELSE [r EXCEPT !.pc = "fp_ret", !.ret = o]]
    /\ UNCHANGED <<smVars, wsVars>>
    /\ History(t)

\* lines 268-269
ForceStopReturn(t) ==
    LET r == th[t] IN
    /\ r.pc = "fp_ret"
    /\ services_started' = FALSE
    /\ th' = [th EXCEPT ![t] = Finish(r, "None")]
    /\ UNCHANGED <<smVars, start_callback, stop_callback, is_running,
                   manual_override, auto_start_enabled, auto_stop_enabled,
                   schedule>>
    /\ History(t)

\* a step of force_start / force_stop outside the callbacks
ForceStep(t) ==
    \/ ForceStartBegin(t) \/ ForceStartOverride(t) \/ ForceStartCall(t)
    \/ ForceStartReturn(t)
    \/ ForceStopBegin(t) \/ ForceStopOverride(t) \/ ForceStopCall(t)
    \/ ForceStopReturn(t)

\* ------------------------------------------------------------------------
\* WorkScheduler.update_schedule (work_scheduler.py:297-324), one action per
\* write of a schedule field

\* `if start_time:` (lines 311, 316): None and the empty string are skipped
Truthy(a) == ~a.none /\ a.text # <<>>

\* str.split(':') (lines 312, 317)
RECURSIVE Split(_, _)
Split(cs, sep) ==
    IF \A i \in 1..Len(cs) : cs[i] # sep THEN <<cs>>
    ELSE LET k == CHOOSE i \in 1..Len(cs) :
                     cs[i] = sep /\ \A j \in 1..(i - 1) : cs[j] # sep
         IN  <<SubSeq(cs, 1, k - 1)>> \o Split(SubSeq(cs, k + 1, Len(cs)), sep)

Digit(c) ==
    CASE c = "0" -> 0 [] c = "1" -> 1 [] c = "2" -> 2 [] c = "3" -> 3
      [] c = "4" -> 4 [] c = "5" -> 5 [] c = "6" -> 6 [] c = "7" -> 7
      [] c = "8" -> 8 [] c = "9" -> 9

\* int() of a string of decimal digits (lines 313-314, 318-319)
RECURSIVE ParseInt(_)
ParseInt(cs) ==
    IF Len(cs) = 1 THEN Digit(cs[1])
    ELSE 10 * ParseInt(SubSeq(cs, 1, Len(cs) - 1)) + Digit(cs[Len(cs)])

\* the arguments the route passes on (main_app.py:291-296): absent, empty,
\* "HH:MM", and a time without minutes
StartTimeArgs ==
    {NoneStr, Str(<<>>), Str(<<"2", "2", ":", "0", "0">>), Str(<<"9">>)}
EndTimeArgs == {NoneStr, Str(<<"0", "6", ":", "1", "5">>)}
EnabledDaysArgs == {NoneDays, Days({}), Days(0..4)}
UpdateArgs ==
    [start_time : StartTimeArgs, end_time : EndTimeArgs,
     enabled_days : EnabledDaysArgs]

\* the first write update_schedule makes from line `from` on ("done": none)
UpdateFrom(from, a) ==
    IF from <= 311 /\ Truthy(a.start_time) THEN "us_start_hour"
    ELSE IF from <= 316 /\ Truthy(a.end_time) THEN "us_end_hour"
    ELSE IF from <= 321 /\ ~a.enabled_days.none THEN "us_days"
    ELSE "done"

UpdateGoto(r, pc) ==
    IF pc = "done" THEN Finish(r, "None") ELSE [r EXCEPT !.pc = pc]

\* api_update_schedule -> update_schedule(start_time, end_time, enabled_days)
UpdateScheduleBegin(t, a) ==
    /\ th[t].pc = "idle"
    /\ th' = [th EXCEPT ![t] =
                UpdateGoto([IdleThread EXCEPT !.top = "update_schedule",
                                              !.arg = a],
                           UpdateFrom(311, a))]
    /\ UNCHANGED <<smVars, wsVars>>
    /\ History(t)

\* lines 312-313; parts[1] of line 314 raises IndexError without a colon
USStartHour(t) ==
    LET r == th[t]
        parts == Split(r.arg.start_time.text, ":")
    IN
    /\ r.pc = "us_start_hour"
    /\ schedule' = [schedule EXCEPT !.start_hour = ParseInt(parts[1])]
    /\ th' = [th EXCEPT ![t] =
                IF Len(parts) < 2 THEN Finish(r, "raised")
                ELSE [r EXCEPT !.pc = "us_start_minute"]]
    /\ UNCHANGED <<smVars, start_callback, stop_callback, is_running,
                   manual_override, services_started, auto_start_enabled,
                   auto_stop_enabled>>
    /\ History(t)

\* line 314
USStartMinute(t) ==
    LET r == th[t]
        parts == Split(r.arg.start_time.text, ":")
    IN
    /\ r.pc = "us_start_minute"
    /\ schedule' = [schedule EXCEPT !.start_minute = ParseInt(parts[2])]
    /\ th' = [th EXCEPT ![t] = UpdateGoto(r, UpdateFrom(316, r.arg))]
    /\ UNCHANGED <<smVars, start_callback, stop_callback, is_running,
                   manual_override, services_started, auto_start_enabled,
                   auto_stop_enabled>>
    /\ History(t)

\* lines 317-318
USEndHour(t) ==
    LET r == th[t]
        parts == Split(r.arg.end_time.text, ":")
    IN
    /\ r.pc = "us_end_hour"
    /\ schedule' = [schedule EXCEPT !.end_hour = ParseInt(parts[1])]
    /\ th' = [th EXCEPT ![t] =
                IF Len(parts) < 2 THEN Finish(r, "raised")
                ELSE [r EXCEPT !.pc = "us_end_minute"]]
    /\ UNCHANGED <<smVars, start_callback, stop_callback, is_running,
                   manual_override, services_started, auto_start_enabled,
                   auto_stop_enabled>>
    /\ History(t)

\* line 319
USEndMinute(t) ==
    LET r == th[t]
        parts == Split(r.arg.end_time.text, ":")
    IN
    /\ r.pc = "us_end_minute"
    /\ schedule' = [schedule EXCEPT !.end_minute = ParseInt(parts[2])]
    /\ th' = [th EXCEPT ![t] = UpdateGoto(r, UpdateFrom(321, r.arg))]
    /\ UNCHANGED <<smVars, start_callback, stop_callback, is_running,
                   manual_override, services_started, auto_start_enabled,
                   auto_stop_enabled>>
    /\ History(t)

\* lines 321-322
USDays(t) ==
    LET r == th[t] IN
    /\ r.pc = "us_days"
    /\ schedule' = [schedule EXCEPT !.enabled_days = r.arg.enabled_days.days]
    /\ th' = [th EXCEPT ![t] = Finish(r, "None")]
    /\ UNCHANGED <<smVars, start_callback, stop_callback, is_running,
                   manual_override, services_started, auto_start_enabled,
                   auto_stop_enabled>>
    /\ History(t)

\* a step inside update_schedule
UpdateStep(t) ==
    \/ USStartHour(t) \/ USStartMinute(t)
    \/ USEndHour(t) \/ USEndMinute(t)
    \/ USDays(t)

\* ------------------------------------------------------------------------
\* The detection gate of the auto start/down panel
\* (src/autostart_autodown/JETSON1_INTEGRATED.py)
\*
\* update_auto_system is a Tk timer callback and force_snapshot_mode a Tk
\* button command: both run on the one Tk main loop, each to completion.
\* A tick of update_auto_system is two consecutive steps, the mode
\* bookkeeping (lines 443-484) and the processing of the frame (lines
\* 486-490); nothing else runs between the two.
\*
\* Time.  Wall-clock readings (datetime.now()) and monotonic readings
\* (time.monotonic()) are whole numbers of one time unit; every configured
\* duration is a number of those units.  A wall-clock reading n is time of
\* day n % DayLength of day n \div DayLength.

\* time units in a day
DayLength == 8

\* config.json: day_start, day_end (lines 36-41), detection_hold_sec (46),
\* night_check_minutes (47), snapshot_cooldown_sec (50)
DAY_START == 1
DAY_END == 3
DETECTION_HOLD_SEC == 2
NIGHT_CHECK_MINUTES == 2
SAVE_COOLDOWN_SEC == 2

\* line 69, where it is 30; the gate only ever compares frame_idx with it
\* (line 589), and the model keeps the comparison with a shorter count
WARMUP_FRAMES == 3

\* process_day_mode runs the detector on every third frame (lines 500-503)
YoloEvery == 3

\* the largest wall-clock and monotonic readings, and the largest frame_idx
MaxWall == 7
MaxTick == 2
MaxFrames == 5

\* None where the code holds a datetime or a monotonic reading
NoTime == -1

\* what a tick reads before it looks at the frame: auto_cap.read() (line
\* 443), datetime.now() (line 448) and the monotonic clock (line 620)
Frames == [ok : {TRUE}, now : 0..MaxWall, tick : 0..MaxTick]

\* no frame is held: none has been read yet, or the last tick got none
NoFrame == [ok |-> FALSE, now |-> NoTime, tick |-> 0]

\* the tick that read frame f is over
Processed(f) == [f EXCEPT !.now = NoTime]

\* is_daytime_mode(now), lines 681-690
IsDaytimeMode(now) ==
    IF FORCE_MODE = "day" THEN TRUE
    ELSE IF FORCE_MODE = "night" THEN FALSE
    ELSE DAY_START <= now % DayLength /\ now % DayLength <= DAY_END

\* History of the gate, kept for the properties; no action reads it.
\*   hold_from    day mode: the reading of the first frame of the current
\*                run of frames that all show a person (NoTime: the last
\*                frame showed nobody, or the mode has just changed)
\*   det_from     the same over the frames the detector was run on
\*   ons, offs    publish_mqtt("ON") calls in the current Day interval,
\*                publish_mqtt("OFF") calls in the current Night interval
\*   left1        stage 1 has ended in the current Night interval
\*   free_from    night stage 1: the reading of the latest of the entry
\*                into night mode and the frames that showed a person
\*   found        the step was a stage-1 step whose frame showed a person
\*   moved        the step was a stage-2 step whose frame had a moving region
\*   last_snap    the monotonic reading of the last snapshot saved
\*   night_frames frames processed in night mode since the entry
NothingSeen ==
    [hold_from |-> NoTime, det_from |-> NoTime, ons |-> 0, offs |-> 0,
     left1 |-> FALSE, free_from |-> NoTime, found |-> FALSE,
     moved |-> FALSE, last_snap |-> NoTime, night_frames |-> 0]

gateVars ==
    <<on_triggered, det_hold_start, night_check_active,
      night_no_person_deadline, off_triggered_once, prev_daytime,
      last_snapshot_tick, frame_idx, yolo_frame_skip, FORCE_MODE, mqtt_client,
                   gate_pc,
      frame, emitted, seen>>

\* what the gate's handlers leave alone
notGateVars ==
    <<smVars, wsVars, th, lastCall, tickLog, clockVars, analyzer, detector,
      sampler, reader, heard, roundtrip>>

\* a tick without a frame that is taken for a frame without a person
C22_MissingFrameEndsHold ==
    /\ gate_pc = "idle"
    /\ \E m \in 0..MaxTick :
          /\ m >= frame.tick
          /\ frame' = [NoFrame EXCEPT !.tick = m]
    /\ emitted' = {}
    /\ det_hold_start' = NoTime
    /\ UNCHANGED <<on_triggered, night_check_active,
                   night_no_person_deadline, off_triggered_once,
                   prev_daytime, last_snapshot_tick, frame_idx,
                   yolo_frame_skip, FORCE_MODE, mqtt_client,
                   gate_pc, seen>>
    /\ UNCHANGED notGateVars

\* update_auto_system, lines 434-446: the camera or the detector is not
\* there, or read() gives no frame; the tick is rescheduled
NoFrameTick ==
    /\ gate_pc = "idle"
    /\ \E m \in 0..MaxTick :
          /\ m >= frame.tick
          /\ frame' = [NoFrame EXCEPT !.tick = m]
    /\ emitted' = {}
    /\ UNCHANGED <<on_triggered, det_hold_start, night_check_active,
                   night_no_person_deadline, off_triggered_once,
                   prev_daytime, last_snapshot_tick, frame_idx,
                   yolo_frame_skip, FORCE_MODE, mqtt_client,
                   gate_pc, seen>>
    /\ UNCHANGED notGateVars

\* the hold across a mode transition: lines 469 and 477
C19_HoldSurvivesNight(toNight, toDay, start) ==
    IF toDay THEN NoTime ELSE start

HoldAfterTransition(toNight, toDay, start) ==
    IF toNight \/ toDay THEN NoTime ELSE start

\* update_auto_system, lines 443-484: a frame is read, the mode is decided
\* and the mode bookkeeping done.  The first tick only records the mode and,
\* at night, opens stage 1 (lines 452-463).
ObserveMode ==
    /\ gate_pc = "idle"
    /\ \E f \in Frames :
          /\ f.tick >= frame.tick
          /\ ~IsDaytimeMode(f.now) => frame_idx < MaxFrames
          /\ frame' = f
          /\ LET daytime == IsDaytimeMode(f.now)
                 startNight == prev_daytime = "None" /\ ~daytime
                 startDay == prev_daytime = "None" /\ daytime
                 toNight == prev_daytime = "True" /\ ~daytime
                 toDay == prev_daytime = "False" /\ daytime
             IN /\ prev_daytime' = Bool2Ret(daytime)
                /\ night_check_active' =
                      IF startNight \/ toNight THEN TRUE
                      ELSE IF toDay THEN FALSE ELSE night_check_active
                /\ night_no_person_deadline' =
                      IF startNight \/ toNight
                      THEN f.now + NIGHT_CHECK_MINUTES
                      ELSE IF toDay THEN NoTime
                      ELSE night_no_person_deadline
                /\ det_hold_start' =
                      HoldAfterTransition(toNight, toDay, det_hold_start)
                /\ off_triggered_once' =
                      IF toNight \/ toDay THEN FALSE ELSE off_triggered_once
                /\ on_triggered' = IF toDay THEN FALSE ELSE on_triggered
                /\ seen' =
                      IF startNight \/ toNight
                      THEN [seen EXCEPT !.hold_from = NoTime,
                                        !.det_from = NoTime,
                                        !.offs = 0, !.left1 = FALSE,
                                        !.free_from = f.now,
                                        !.found = FALSE,
                                        !.moved = FALSE,
                                        !.night_frames = 0]
                      ELSE IF startDay \/ toDay
                      THEN [seen EXCEPT !.hold_from = NoTime,
                                        !.det_from = NoTime,
                                        !.ons = 0,
                                        !.free_from = NoTime,
                                        !.found = FALSE,
                                        !.moved = FALSE]
                      ELSE [seen EXCEPT !.found = FALSE, !.moved = FALSE]
    /\ gate_pc' = "process"
    /\ emitted' = {}
    /\ UNCHANGED <<last_snapshot_tick, frame_idx, yolo_frame_skip,
                   FORCE_MODE,
                   mqtt_client>>
    /\ UNCHANGED notGateVars

\* the first frame of a run of frames with a person on them
RunFrom(from, person, now) ==
    IF ~person THEN NoTime ELSE IF from = NoTime THEN now ELSE from

\* the hold has lasted: lines 526-535, hold_sec >= DETECTION_HOLD_SEC
C14_NoHold(start, now) == start # NoTime

HoldElapsed(start, now) ==
    start # NoTime /\ now - start >= DETECTION_HOLD_SEC

\* what a frame without a person does to the hold: line 543
C15_KeepHold(start) == start

HoldAfterAbsence(start) == NoTime

\* process_day_mode, lines 497-545.  person: the frame shows a person, which
\* is what predict (lines 506-521) reports when it is run on the frame.
ProcessDayMode ==
    /\ gate_pc = "process"
    /\ prev_daytime = "True"
    /\ \E person \in BOOLEAN :
       LET now == frame.now
           skip == yolo_frame_skip + 1
           run == ~(skip < YoloEvery)
           detected == person
           fire == /\ run
                   /\ detected
                   /\ HoldElapsed(det_hold_start, now)
                   /\ ~on_triggered
       IN /\ yolo_frame_skip' = IF run THEN 0 ELSE skip
          /\ det_hold_start' =
                IF ~run THEN det_hold_start
                ELSE IF detected
                THEN IF det_hold_start = NoTime THEN now ELSE det_hold_start
                ELSE HoldAfterAbsence(det_hold_start)
          /\ on_triggered' = (on_triggered \/ fire)
          /\ emitted' = IF fire THEN {"ON"} ELSE {}
          /\ seen' = [seen EXCEPT
                        !.hold_from = RunFrom(@, person, now),
                        !.det_from = IF run THEN RunFrom(@, detected, now)
                                     ELSE @,
                        !.ons = IF fire THEN @ + 1 ELSE @]
    /\ gate_pc' = "idle"
    /\ frame' = Processed(frame)
    /\ UNCHANGED <<night_check_active, night_no_person_deadline,
                   off_triggered_once, prev_daytime, last_snapshot_tick,
                   frame_idx, FORCE_MODE,
                   mqtt_client>>
    /\ UNCHANGED notGateVars

\* stage 1, lines 566-568: the deadline after this frame's detection
C18_KeepDeadline(deadline, detected, now) == deadline

DeadlineAfter(deadline, detected, now) ==
    IF detected THEN now + NIGHT_CHECK_MINUTES ELSE deadline

\* stage 2, line 621: the cooldown since the last snapshot is over
C21_NoCooldown(last, tick) == TRUE

CanSave(last, tick) ==
    last = NoTime \/ tick - last >= SAVE_COOLDOWN_SEC

\* publish_mqtt(message), lines 692-702: what is handed to
\* mqtt_client.publish
C23_PublishUnchecked(message) == {message}

PublishMqtt(message) ==
    IF mqtt_client # "None" THEN {message} ELSE {}

\* stage 1, line 571: the deadline has passed
C17_StrictlyAfter(deadline, now) == deadline # NoTime /\ now > deadline

DeadlinePassed(deadline, now) == deadline # NoTime /\ now >= deadline

\* stage 1, lines 571-577: "OFF" is sent when the deadline has passed, once
C16_OffWheneverDue(due, once) == due

OffDue(due, once) == due /\ ~once

\* process_night_mode, lines 547-627.  person as in day mode (predict, lines
\* 558-564); moving: the frame has a moving region of at least
\* MOTION_MIN_AREA against the background model (lines 590-602).
ProcessNightMode ==
    /\ gate_pc = "process"
    /\ prev_daytime = "False"
    /\ \E person \in BOOLEAN, moving \in BOOLEAN :
       LET now == frame.now
           idx == frame_idx + 1
           detected == person
           deadline == DeadlineAfter(night_no_person_deadline, detected, now)
           due == DeadlinePassed(deadline, now)
           off == OffDue(due, off_triggered_once)
           motion == idx > WARMUP_FRAMES /\ moving
           can_save == CanSave(last_snapshot_tick, frame.tick)
           save == motion /\ can_save
       IN /\ frame_idx' = idx
          /\ IF night_check_active
             THEN /\ night_no_person_deadline' =
                        IF due THEN NoTime ELSE deadline
                  /\ night_check_active' = ~due
                  /\ off_triggered_once' = (off_triggered_once \/ due)
                  /\ emitted' = IF off THEN {"OFF"} ELSE {}
                  /\ seen' = [seen EXCEPT
                                !.free_from = IF detected THEN now ELSE @,
                                !.found = detected,
                                !.offs = IF off THEN @ + 1 ELSE @,
                                !.left1 = @ \/ due,
                                !.night_frames = @ + 1]
                  /\ UNCHANGED last_snapshot_tick
             ELSE /\ last_snapshot_tick' =
                        IF save THEN frame.tick ELSE last_snapshot_tick
                  /\ emitted' = IF save THEN {"SNAP"} ELSE {}
                  /\ seen' = [seen EXCEPT
                                !.moved = moving,
                                !.last_snap = IF save THEN frame.tick ELSE @,
                                !.night_frames = @ + 1]
                  /\ UNCHANGED <<night_no_person_deadline,
                                 night_check_active, off_triggered_once>>
    /\ gate_pc' = "idle"
    /\ frame' = Processed(frame)
    /\ UNCHANGED <<on_triggered, det_hold_start, prev_daytime,
                   yolo_frame_skip, FORCE_MODE,
                   mqtt_client>>
    /\ UNCHANGED notGateVars

\* force_snapshot_mode, lines 343-350 (the developer panel's button)
ForceSnapshotMode ==
    /\ gate_pc = "idle"
    /\ night_check_active' = FALSE
    /\ night_no_person_deadline' = NoTime
    /\ off_triggered_once' = TRUE
    /\ emitted' = {}
    /\ seen' = [seen EXCEPT !.left1 = @ \/ night_check_active]
    /\ UNCHANGED <<on_triggered, det_hold_start, prev_daytime,
                   last_snapshot_tick, frame_idx, yolo_frame_skip,
                   FORCE_MODE, mqtt_client,
                   gate_pc, frame>>
    /\ UNCHANGED notGateVars

\* ------------------------------------------------------------------------
\* The vibration pipeline
\* (src/src/monitoring/vibration/vibration_analyzer.py, vibration_detector.py)
\*
\* Units.  A magnitude or an axis value is a whole number of 0.1 m/s^2, so
\* that the thresholds 2.0, 5.0, 10.0, 20.0 are 20, 50, 100, 200 and the
\* spike guard "recent_avg > 0.1" is "mean > 1".  A timestamp is a whole
\* number of time units counted from a moment shortly before the analyzer
\* is used; time.time() is seconds since 1970, so every timestamp is far
\* more than alert_cooldown after the 0 that last_alert_time starts with.

\* VibrationAnalyzer(window_size), vibration_analyzer.py:57: the capacity of
\* the five deques (100 by default, a short window here)
window_size == 3

\* alert_thresholds, vibration_analyzer.py:73-78, in units of 0.1 m/s^2
alert_thresholds ==
    [low |-> 20, medium |-> 50, high |-> 100, critical |-> 200]

\* alert_cooldown, vibration_analyzer.py:91 (5.0 seconds; a time unit of
\* the model is 2.5 seconds)
alert_cooldown == 2

\* _check_spike needs this many samples in the window, line 187 (10 in the
\* source, the whole short window here)
SPIKE_MIN_SAMPLES == 3

\* the timestamps of the readings: FirstStamp..MaxStamp
FirstStamp == alert_cooldown + 1
MaxStamp == 7

\* the most readings added between two resets: one more than the window
\* holds
MaxSamples == window_size + 1

\* what the sensor measures: a vector and its Euclidean norm
\* (rs485_sensor.py:188-196)
Shapes ==
    { [x_axis |-> 0, y_axis |-> 0, z_axis |-> 1, magnitude |-> 1],
      [x_axis |-> 1, y_axis |-> 2, z_axis |-> 2, magnitude |-> 3],
      [x_axis |-> 2, y_axis |-> 6, z_axis |-> 9, magnitude |-> 11],
      [x_axis |-> 0, y_axis |-> 12, z_axis |-> 16, magnitude |-> 20] }

\* None where the code holds an optional float
NoValue == -1

\* VibrationReading, rs485_sensor.py:19-28
Reading(shape, stamp, temp, freq) ==
    [timestamp |-> stamp, x_axis |-> shape.x_axis, y_axis |-> shape.y_axis,
     z_axis |-> shape.z_axis, magnitude |-> shape.magnitude,
     temperature |-> temp, frequency |-> freq]

\* no reading yet (latest_reading is None, vibration_detector.py:74)
NoReadingYet ==
    [timestamp |-> 0, x_axis |-> 0, y_axis |-> 0, z_axis |-> 0,
     magnitude |-> 0, temperature |-> NoValue, frequency |-> NoValue]

\* VibrationAnalyzer.__init__, vibration_analyzer.py:80-95
NewAnalyzer ==
    [magnitude_buffer |-> <<>>, x_buffer |-> <<>>, y_buffer |-> <<>>,
     z_buffer |-> <<>>, timestamp_buffer |-> <<>>, alerts |-> <<>>,
     last_alert_time |-> 0, total_samples |-> 0]

\* deque(maxlen=window_size).append, vibration_analyzer.py:82-86, 104-108
C24_GrowingWindow(buf, v) == Append(buf, v)

Push(buf, v) ==
    IF Len(buf) < window_size THEN Append(buf, v)
    ELSE Append(Tail(buf), v)

\* add_reading, lines 104-109: the five appends and the counter
Appended(a, r) ==
    [a EXCEPT !.magnitude_buffer = Push(@, r.magnitude),
              !.x_buffer = Push(@, r.x_axis),
              !.y_buffer = Push(@, r.y_axis),
              !.z_buffer = Push(@, r.z_axis),
              !.timestamp_buffer = Push(@, r.timestamp),
              !.total_samples = @ + 1]

\* _check_thresholds, lines 153-167: the highest band reached
Severity(magnitude) ==
    IF magnitude >= alert_thresholds.critical THEN "critical"
    ELSE IF magnitude >= alert_thresholds.high THEN "high"
    ELSE IF magnitude >= alert_thresholds.medium THEN "medium"
    ELSE IF magnitude >= alert_thresholds.low THEN "low"
    ELSE "None"

\* lines 171 and 196: current_time - self.last_alert_time > alert_cooldown
CooledDown(last, current_time) == current_time - last > alert_cooldown

\* VibrationAlert, lines 172-179 and 197-204
Alert(r, type, severity) ==
    [timestamp |-> r.timestamp, alert_type |-> type, severity |-> severity,
     magnitude |-> r.magnitude]

\* _check_thresholds, lines 148-183
CheckThresholds(a, r) ==
    IF /\ Severity(r.magnitude) # "None"
       /\ CooledDown(a.last_alert_time, r.timestamp)
    THEN [a EXCEPT !.alerts = Append(@, Alert(r, "threshold",
                                              Severity(r.magnitude))),
                   !.last_alert_time = r.timestamp]
    ELSE a

RECURSIVE Sum(_)
Sum(s) == IF s = <<>> THEN 0 ELSE Head(s) + Sum(Tail(s))

\* all but the last: list(self.magnitude_buffer)[:-1], line 191
ButLast(s) == SubSeq(s, 1, Len(s) - 1)

\* _check_spike, lines 187-194: enough samples, and the magnitude is more
\* than three times the mean of the others, a mean above 0.1 m/s^2
C32_RatioOnly(buf, magnitude) ==
    /\ Len(buf) >= 2
    /\ magnitude * Len(ButLast(buf)) > Sum(ButLast(buf)) * 3
    /\ Sum(ButLast(buf)) > Len(ButLast(buf))
IsSpike(buf, magnitude) ==
    /\ Len(buf) >= SPIKE_MIN_SAMPLES
    /\ magnitude * Len(ButLast(buf)) > Sum(ButLast(buf)) * 3
    /\ Sum(ButLast(buf)) > Len(ButLast(buf))

\* _check_spike, lines 185-207
CheckSpike(a, r) ==
    IF /\ IsSpike(a.magnitude_buffer, r.magnitude)
       /\ CooledDown(a.last_alert_time, r.timestamp)
    THEN [a EXCEPT !.alerts = Append(@, Alert(r, "spike", "high")),
                   !.last_alert_time = r.timestamp]
    ELSE a

\* add_reading, lines 97-113
AddReadingTo(a, r) == CheckSpike(CheckThresholds(Appended(a, r), r), r)

\* reset, lines 273-283: the buffers, the alerts and the counter;
\* last_alert_time stays
C27_KeepAll(a) == a

ResetOf(a) ==
    [a EXCEPT !.magnitude_buffer = <<>>, !.x_buffer = <<>>,
              !.y_buffer = <<>>, !.z_buffer = <<>>,
              !.timestamp_buffer = <<>>, !.alerts = <<>>,
              !.total_samples = 0]

RECURSIVE SumSq(_)
SumSq(s) == IF s = <<>> THEN 0 ELSE Head(s) * Head(s) + SumSq(Tail(s))

SeqMax(s) == CHOOSE m \in {s[i] : i \in 1..Len(s)} :
                \A i \in 1..Len(s) : s[i] <= m

SeqMin(s) == CHOOSE m \in {s[i] : i \in 1..Len(s)} :
                \A i \in 1..Len(s) : s[i] >= m

\* what a call returns when it returns None or {}
NoStats == [kind |-> "None"]

\* the statistics of one array (np.mean, np.max, np.min, np.std, the RMS,
\* lines 125-131 and 219-225): mean, standard deviation and RMS are
\* functions of the sum, the sum of squares and the count, which stand for
\* them here
ArrayStats(s) ==
    [sum |-> Sum(s), sumsq |-> SumSq(s), max |-> SeqMax(s),
     min |-> SeqMin(s), count |-> Len(s)]

\* get_current_stats, lines 115-146, of the magnitude and timestamp buffers
CurrentStats(magnitudes, stamps) ==
    IF Len(magnitudes) < 2 THEN NoStats
    ELSE [kind |-> "stats",
          magnitude |-> ArrayStats(magnitudes),
          sample_count |-> Len(magnitudes),
          duration_seconds |-> stamps[Len(stamps)] - stamps[1]]

\* get_axis_stats, lines 213-232, of the three axis buffers
AxisStats(xs, ys, zs) ==
    IF Len(xs) < 2 THEN NoStats
    ELSE [kind |-> "axis", x |-> ArrayStats(xs), y |-> ArrayStats(ys),
          z |-> ArrayStats(zs)]

\* History of the pipeline, kept for the properties; no action reads it.
\*   log      the readings added since the analyzer was made or reset
\*   raised   per kind of alert, the timestamp of the last one raised
\*            (NoTime: none yet); a reset does not forget it
\*   stamp    the timestamp of the last reading
\*   delivered  the alerts handed to the alert callback during the session,
\*            each by its position in the analyzer's alert list
NothingHeard ==
    [log |-> <<>>, raised |-> [threshold |-> NoTime, spike |-> NoTime],
     stamp |-> FirstStamp, delivered |-> <<>>]

\* the caller of the analyzer has no call under way and holds no result
NoResult == [pc |-> "idle", result |-> NoStats]

\* VibrationDetector.__init__, vibration_detector.py:60-74: not monitoring,
\* no session, no log file
NewDetector ==
    [is_running |-> FALSE, is_monitoring |-> FALSE, session_id |-> "None",
     session_start_time |-> NoTime, csv |-> <<>>, summary |-> NoStats,
     latest_reading |-> NoReadingYet, alert_callback |-> "None"]

\* no monitoring thread
NoSampler == [pc |-> "none"]

\* nothing written or parsed
NoRoundTrip == [pc |-> "none"]

vibVars == <<analyzer, detector, sampler, reader, heard, roundtrip>>

\* what the vibration pipeline leaves alone
notVibVars ==
    <<smVars, wsVars, th, lastCall, tickLog, clockVars, gateVars>>

\* the kinds of the alerts that took the analyzer from a to a2
KindsRaised(a, a2) ==
    {a2.alerts[i].alert_type : i \in (Len(a.alerts) + 1)..Len(a2.alerts)}

\* the history after add_reading(r) took the analyzer from a to a2
HeardAdd(h, a, a2, r) ==
    [h EXCEPT !.log = Append(@, r),
              !.raised = [k \in {"threshold", "spike"} |->
                            IF k \in KindsRaised(a, a2) THEN r.timestamp
                            ELSE @[k]],
              !.stamp = r.timestamp]

\* add_reading(reading), lines 97-113, called with the analyzer to oneself;
\* the readings come with timestamps that do not go back
AddReading ==
    /\ Len(heard.log) < MaxSamples
    /\ \E shape \in Shapes, stamp \in heard.stamp..MaxStamp :
          LET r == Reading(shape, stamp, NoValue, NoValue)
          IN /\ analyzer' = AddReadingTo(analyzer, r)
             /\ heard' = HeardAdd(heard, analyzer, analyzer', r)
    /\ reader' = NoResult
    /\ UNCHANGED <<detector, sampler, roundtrip>>
    /\ UNCHANGED notVibVars

\* get_current_stats(), lines 115-146
GetCurrentStats ==
    /\ reader' = [pc |-> "idle",
                  result |-> CurrentStats(analyzer.magnitude_buffer,
                                          analyzer.timestamp_buffer)]
    /\ UNCHANGED <<analyzer, detector, sampler, heard, roundtrip>>
    /\ UNCHANGED notVibVars

\* get_axis_stats(), lines 213-232
GetAxisStats ==
    /\ reader' = [pc |-> "idle",
                  result |-> AxisStats(analyzer.x_buffer, analyzer.y_buffer,
                                       analyzer.z_buffer)]
    /\ UNCHANGED <<analyzer, detector, sampler, heard, roundtrip>>
    /\ UNCHANGED notVibVars

\* reset(), lines 273-283
Reset ==
    /\ analyzer' = ResetOf(analyzer)
    /\ heard' = [heard EXCEPT !.log = <<>>]
    /\ reader' = NoResult
    /\ UNCHANGED <<detector, sampler, roundtrip>>
    /\ UNCHANGED notVibVars


\* ------------------------------------------------------------------------
\* The session log (vibration_detector.py:172-189)
\*
\* A number of the model is a whole count of a unit, and a unit is a
\* fraction <<n, d>> of the source's unit (second, m/s^2): the count v
\* stands for the float v * n / d.  A text is what its characters denote.

\* a timestamp counts units of 2.5 seconds, an acceleration units of
\* 0.1 m/s^2 (the units of the analyzer above)
StampUnit == <<5, 2>>
AccelUnit == <<1, 10>>

RECURSIVE Pow10(_)
Pow10(n) == IF n = 0 THEN 1 ELSE 10 * Pow10(n - 1)

Abs(v) == IF v < 0 THEN 0 - v ELSE v

RECURSIVE GCD(_, _)
GCD(a, b) == IF b = 0 THEN a ELSE GCD(b, a % b)

\* |value| * 10^digits as a fraction in lowest terms of the power of ten
\* and the unit: its numerator and its denominator
Numerator(v, unit, digits) ==
    Abs(v) * unit[1] * (Pow10(digits) \div GCD(Pow10(digits), unit[2]))
Denominator(unit, digits) == unit[2] \div GCD(Pow10(digits), unit[2])

\* f"{value:.3f}", f"{value:.6f}": the sign and the nearest multiple of
\* 10^-digits, as an integer part and `digits` decimals.  A value half-way
\* between two multiples has no exact float; which way its float lies, and
\* with it the rounding, is the input `up`.
C30_Truncated(v, unit, digits, up) ==
    [kind |-> "fixed", neg |-> v < 0, digits |-> digits,
     scaled |-> Numerator(v, unit, digits) \div Denominator(unit, digits)]

FixedText(v, unit, digits, up) ==
    [kind |-> "fixed", neg |-> v < 0, digits |-> digits,
     scaled |->
        IF \/ 2 * (Numerator(v, unit, digits) % Denominator(unit, digits))
                > Denominator(unit, digits)
           \/ /\ 2 * (Numerator(v, unit, digits) % Denominator(unit, digits))
                   = Denominator(unit, digits)
              /\ up
        THEN Numerator(v, unit, digits) \div Denominator(unit, digits) + 1
        ELSE Numerator(v, unit, digits) \div Denominator(unit, digits)]

\* the empty column
EmptyText == [kind |-> "empty"]

\* f"{value if value else ''}", lines 187-188: str(value) (the shortest text
\* that reads back as the same float) when the value is truthy, else ''.
\* None is falsy, and so is 0.0.
OptionalText(v) ==
    IF v = NoValue \/ v = 0 THEN EmptyText
    ELSE [kind |-> "repr", value |-> v]

\* _log_reading, lines 177-189: the row of a reading; the header's columns
LogRow(r, start, stamp_unit, accel_unit, up) ==
    [timestamp |-> FixedText(r.timestamp, stamp_unit, 3, up),
     elapsed_time |-> FixedText(r.timestamp - start, stamp_unit, 3, up),
     x_axis |-> FixedText(r.x_axis, accel_unit, 6, up),
     y_axis |-> FixedText(r.y_axis, accel_unit, 6, up),
     z_axis |-> FixedText(r.z_axis, accel_unit, 6, up),
     magnitude |-> FixedText(r.magnitude, accel_unit, 6, up),
     temperature |-> OptionalText(r.temperature),
     frequency |-> OptionalText(r.frequency)]

\* float(text) of a fixed-point text: the fraction num / den
ParsedText(text) ==
    [num |-> IF text.neg THEN 0 - text.scaled ELSE text.scaled,
     den |-> Pow10(text.digits)]

\* |p - v| <= tol for the fraction p, the count v of a unit and the
\* fraction tol = <<n, d>>
Within(p, v, unit, tol) ==
    Abs(p.num * (unit[2] \div GCD(p.den, unit[2]))
          - v * unit[1] * (p.den \div GCD(p.den, unit[2]))) * tol[2]
       <= tol[1] * (p.den \div GCD(p.den, unit[2])) * unit[2]

\* re-parsing a row: float() of the five numeric columns of the claim
ParsedRow(row) ==
    [timestamp |-> ParsedText(row.timestamp),
     x_axis |-> ParsedText(row.x_axis),
     y_axis |-> ParsedText(row.y_axis),
     z_axis |-> ParsedText(row.z_axis),
     magnitude |-> ParsedText(row.magnitude)]

\* fixed-point values: whole numbers of 10^-6 seconds or m/s^2
MicroUnit == <<1, 1000000>>

\* the largest integer part of such a value
MaxWhole == 1

\* the decimals of such a value, in millionths: none, the smallest, the
\* three around half a thousandth, the largest
MicroFractions == {0, 1, 499, 500, 501, 999999}

\* the values that are not negative, all values, and a few of them
Unsigned ==
    {whole * 1000000 + fraction :
        whole \in 0..MaxWhole, fraction \in MicroFractions}
Signed == Unsigned \cup {0 - v : v \in Unsigned}
Few == {0 - 501, 0, 999999}

\* the readings a row is written of
MicroReadings ==
    {[timestamp |-> t, x_axis |-> x, y_axis |-> y, z_axis |-> z,
      magnitude |-> g, temperature |-> NoValue, frequency |-> NoValue] :
        t \in Unsigned, x \in Signed, y \in Few, z \in Few,
        g \in {Abs(v) : v \in Few}}

\* _log_reading(reading), lines 172-189, in a session started at `start`
WriteRow ==
    /\ roundtrip.pc = "reading"
    /\ \E up \in BOOLEAN :
          roundtrip' =
             [pc |-> "written", reading |-> roundtrip.reading,
              row |-> <<LogRow(roundtrip.reading, roundtrip.start,
                               MicroUnit, MicroUnit, up)>>,
              start |-> roundtrip.start, parsed |-> <<>>]
    /\ UNCHANGED <<analyzer, detector, sampler, reader, heard>>
    /\ UNCHANGED notVibVars

\* the row is read back: split at the commas and float() of each column
ParseRow ==
    /\ roundtrip.pc = "written"
    /\ roundtrip' = [roundtrip EXCEPT
                       !.pc = "parsed",
                       !.parsed = <<ParsedRow(roundtrip.row[1])>>]
    /\ UNCHANGED <<analyzer, detector, sampler, reader, heard>>
    /\ UNCHANGED notVibVars

\* the optional fields of a reading, temperature and frequency in units of
\* 0.1 (neither; 0 degrees and 50 Hz; 25.3 degrees and 0 Hz)
Extras == {<<NoValue, NoValue>>, <<0, 500>>, <<253, 0>>}

\* what the sensor measures during a session: a machine that shakes
SessionShapes == {shape \in Shapes : shape.magnitude = 20}

\* the most readings of a session
MaxRows == 2

\* what _save_session_summary writes of the analyzer
\* (vibration_detector.py:223-230, export_stats_json,
\* vibration_analyzer.py:285-302)
Summary(a) ==
    [kind |-> "summary", total_samples |-> a.total_samples,
     sample_count |-> Len(a.magnitude_buffer),
     recent_alerts |-> Len(a.alerts)]

\* what a call of the detector returned
Returned(value) == [pc |-> "idle", result |-> [kind |-> value]]

\* start_monitoring, vibration_detector.py:97-135: refused while monitoring
\* or without a connected sensor; else a new session file with its header,
\* the analyzer reset, and the monitoring thread started
StartMonitoring ==
    /\ reader.pc = "idle"
    /\ \E connected \in BOOLEAN :
          IF detector.is_monitoring \/ ~connected
          THEN /\ reader' = Returned("False")
               /\ UNCHANGED <<analyzer, detector, sampler, heard>>
          ELSE /\ detector' = [detector EXCEPT
                                  !.session_id = "session",
                                  !.session_start_time = heard.stamp,
                                  !.csv = <<>>,
                                  !.is_monitoring = TRUE,
                                  !.is_running = TRUE]
               /\ analyzer' = ResetOf(analyzer)
               /\ sampler' = [pc |-> "loop"]
               /\ heard' = [heard EXCEPT !.log = <<>>, !.delivered = <<>>]
               /\ reader' = Returned("True")
    /\ UNCHANGED roundtrip
    /\ UNCHANGED notVibVars

\* _check_alerts, line 198: "time.time() - latest_alert.timestamp < 2.0"
FRESH_SECONDS == 2

\* the alert is less than FRESH_SECONDS old at the time `now`
Fresh(alert, now) ==
    (now - alert.timestamp) * StampUnit[1] < FRESH_SECONDS * StampUnit[2]

\* _check_alerts, lines 191-199, and get_recent_alerts(count=1),
\* vibration_analyzer.py:209-211: with a callback registered, the last
\* alert of the list is handed to it when it is fresh.  The positions of
\* the alerts handed over so far, after the call.
CheckAlerts(delivered, callback, alerts, now) ==
    IF /\ callback # "None"
       /\ alerts # <<>>
       /\ Fresh(alerts[Len(alerts)], now)
    THEN Append(delivered, Len(alerts))
    ELSE delivered

\* set_alert_callback(callback), lines 279-286
SetAlertCallback ==
    /\ detector' = [detector EXCEPT !.alert_callback = "callback"]
    /\ UNCHANGED <<analyzer, sampler, reader, heard, roundtrip>>
    /\ UNCHANGED notVibVars

\* _monitoring_loop, lines 139-167: one round of the loop.  The sensor
\* gives a reading or None; a reading is kept as the latest, added to the
\* analyzer and logged, and the alert callback is served; the round takes
\* milliseconds, so the time of _check_alerts is the reading's time unit.
MonitoringLoop ==
    /\ sampler.pc = "loop"
    /\ detector.is_running
    /\ \/ UNCHANGED <<analyzer, detector, heard>>
       \/ /\ Len(heard.log) < MaxRows
          /\ \E shape \in SessionShapes, stamp \in heard.stamp..MaxStamp,
                extra \in Extras :
                LET r == Reading(shape, stamp, extra[1], extra[2])
                IN /\ analyzer' = AddReadingTo(analyzer, r)
                   /\ detector' =
                         [detector EXCEPT
                            !.latest_reading = r,
                            !.csv = Append(@,
                                      LogRow(r, detector.session_start_time,
                                             StampUnit, AccelUnit, FALSE))]
                   /\ heard' =
                         [HeardAdd(heard, analyzer, analyzer', r) EXCEPT
                            !.delivered =
                               CheckAlerts(@, detector.alert_callback,
                                           analyzer'.alerts, r.timestamp)]
    /\ UNCHANGED <<sampler, reader, roundtrip>>
    /\ UNCHANGED notVibVars

\* _monitoring_loop, lines 139 and 169-170: is_running is off, the loop ends
LoopExit ==
    /\ sampler.pc = "loop"
    /\ ~detector.is_running
    /\ detector' = [detector EXCEPT !.is_monitoring = FALSE]
    /\ sampler' = NoSampler
    /\ UNCHANGED <<analyzer, reader, heard, roundtrip>>
    /\ UNCHANGED notVibVars

\* stop_monitoring, lines 201-209: nothing when not monitoring; else
\* is_running goes off and the caller joins the thread
StopMonitoring ==
    /\ reader.pc = "idle"
    /\ IF ~detector.is_monitoring
       THEN /\ reader' = Returned("None")
            /\ UNCHANGED detector
       ELSE /\ detector' = [detector EXCEPT !.is_running = FALSE]
            /\ reader' = [pc |-> "join", result |-> NoStats]
    /\ UNCHANGED <<analyzer, sampler, heard, roundtrip>>
    /\ UNCHANGED notVibVars

\* stop_monitoring, lines 209-214, and _save_session_summary, 216-235: the
\* join returns, because the thread has ended or after 2 seconds, and the
\* summary is written; the analyzer is read only
SaveSessionSummary ==
    /\ reader.pc = "join"
    /\ detector' = [detector EXCEPT !.summary = Summary(analyzer)]
    /\ reader' = Returned("None")
    /\ UNCHANGED <<analyzer, sampler, heard, roundtrip>>
    /\ UNCHANGED notVibVars

\* ------------------------------------------------------------------------
\* The analyzer under two threads: the monitoring thread inside add_reading
\* and a dashboard thread inside get_current_stats or get_axis_stats.
\* Neither method takes a lock; the interpreter may switch threads between
\* any two statements, so every statement that touches a buffer is a step.

\* add_reading appends to the buffers in this order (lines 104-108), each
\* the reading's field of that position
Buffers ==
    <<"magnitude_buffer", "x_buffer", "y_buffer", "z_buffer",
      "timestamp_buffer">>
Fields == <<"magnitude", "x_axis", "y_axis", "z_axis", "timestamp">>

\* the monitoring thread between two add_reading calls
BetweenCalls == [pc |-> "idle", field |-> 0, reading |-> NoReadingYet]

\* the dashboard thread between two calls; what the last call returned
Idle(result) == [pc |-> "idle", copies |-> <<>>, result |-> result]

\* one append of add_reading, lines 104-108: the first of a new reading, or
\* the next of the reading under way
AppendNext ==
    /\ sampler.pc \in {"idle", "append"}
    /\ \E r \in {Reading(shape, stamp, NoValue, NoValue) :
                    shape \in Shapes, stamp \in heard.stamp..MaxStamp} :
          /\ sampler.pc = "append" => r = sampler.reading
          /\ sampler.pc = "idle" => Len(heard.log) < MaxRows
          /\ analyzer' =
                [analyzer EXCEPT ![Buffers[sampler.field + 1]] =
                    Push(@, r[Fields[sampler.field + 1]])]
          /\ sampler' =
                [pc |-> IF sampler.field + 1 < Len(Buffers) THEN "append"
                        ELSE "count",
                 field |-> sampler.field + 1, reading |-> r]
          /\ heard' = IF sampler.pc = "idle"
                      THEN [heard EXCEPT !.log = Append(@, r),
                                         !.stamp = r.timestamp]
                      ELSE heard
    /\ UNCHANGED <<detector, reader, roundtrip>>
    /\ UNCHANGED notVibVars

\* the rest of add_reading, lines 109-113: the counter and the two checks
CountAndCheck ==
    /\ sampler.pc = "count"
    /\ analyzer' =
          CheckSpike(CheckThresholds(
                        [analyzer EXCEPT !.total_samples = @ + 1],
                        sampler.reading),
                     sampler.reading)
    /\ sampler' = BetweenCalls
    /\ heard' =
          [heard EXCEPT
             !.raised = [k \in {"threshold", "spike"} |->
                           IF k \in KindsRaised(analyzer, analyzer')
                           THEN sampler.reading.timestamp ELSE @[k]]]
    /\ UNCHANGED <<detector, reader, roundtrip>>
    /\ UNCHANGED notVibVars

\* get_current_stats, lines 122-133: None below two magnitudes; else the
\* magnitudes are copied into an array
StatsCopy ==
    /\ reader.pc = "idle"
    /\ reader' =
          IF Len(analyzer.magnitude_buffer) < 2 THEN Idle(NoStats)
          ELSE [pc |-> "duration",
                copies |-> <<analyzer.magnitude_buffer>>,
                result |-> NoStats]
    /\ UNCHANGED <<analyzer, detector, sampler, heard, roundtrip>>
    /\ UNCHANGED notVibVars

\* get_current_stats, lines 135-146: the duration from the timestamp buffer
\* as it is now, and the return
StatsReturn ==
    /\ reader.pc = "duration"
    /\ reader' = Idle(CurrentStats(reader.copies[1],
                                   analyzer.timestamp_buffer))
    /\ UNCHANGED <<analyzer, detector, sampler, heard, roundtrip>>
    /\ UNCHANGED notVibVars

\* get_axis_stats, lines 215-232: {} below two x values; else the x, the y
\* and the z buffer are copied one after the other, and the return
AxisNext ==
    /\ reader.pc \in {"idle", "axis"}
    /\ reader' =
          IF reader.pc = "idle" /\ Len(analyzer.x_buffer) < 2
          THEN Idle(NoStats)
          ELSE IF Len(reader.copies) = 0
          THEN [pc |-> "axis", copies |-> <<analyzer.x_buffer>>,
                result |-> NoStats]
          ELSE IF Len(reader.copies) = 1
          THEN [pc |-> "axis",
                copies |-> Append(reader.copies, analyzer.y_buffer),
                result |-> NoStats]
          ELSE Idle(AxisStats(reader.copies[1], reader.copies[2],
                              analyzer.z_buffer))
    /\ UNCHANGED <<analyzer, detector, sampler, heard, roundtrip>>
    /\ UNCHANGED notVibVars

\* ------------------------------------------------------------------------
\* Initial states

\* the instances registered before the scheduler is started:
\* main_app.py:139-140 (vibration only), dash_app.py:197-225 (all three, the
\* camera a CameraBase), and all three with a camera service that can start
DashboardInstances ==
    {[s \in Services |-> IF s = "vibration" THEN VibrationDetector
                         ELSE NoInstance],
     [s \in Services |->
         CASE s = "camera" -> CameraBase
           [] s = "vibration" -> VibrationDetector
           [] OTHER -> FryingDataCollector],
     [s \in Services |->
         CASE s = "camera" -> CameraMonitor
           [] s = "vibration" -> VibrationDetector
           [] OTHER -> FryingDataCollector]}

\* ServiceManager.__init__ (service_manager.py:30-51) and, beside it, a
\* WorkScheduler as constructed (work_scheduler.py:58-86): no callbacks, no
\* loop thread.  The call history is kept.
InitSM ==
    /\ status = [s \in Services |-> STOPPED]
    /\ error_message = [s \in Services |-> NoMessage]
    /\ instance = [s \in Services |-> NoInstance]
    /\ start_callback = "None"
    /\ stop_callback = "None"
    /\ is_running = FALSE
    /\ manual_override = FALSE
    /\ services_started = FALSE
    /\ auto_start_enabled = TRUE
    /\ auto_stop_enabled = TRUE
    /\ schedule = DefaultSchedule
    /\ th = [t \in Threads |->
               IF t = "loop" THEN [IdleThread EXCEPT !.pc = "dead"]
               ELSE IdleThread]
    /\ lastCall = NoCall
    /\ tickLog = TicksNotKept
    /\ clock = NoReading
    /\ work_time = "None"
    /\ on_triggered = FALSE
    /\ det_hold_start = NoTime
    /\ night_check_active = FALSE
    /\ night_no_person_deadline = NoTime
    /\ off_triggered_once = FALSE
    /\ prev_daytime = "None"
    /\ last_snapshot_tick = NoTime
    /\ frame_idx = 0
    /\ yolo_frame_skip = 0
    /\ FORCE_MODE = "auto"
    /\ mqtt_client = "None"
    /\ gate_pc = "idle"
    /\ frame = NoFrame
    /\ emitted = {}
    /\ seen = NothingSeen
    /\ analyzer = NewAnalyzer
    /\ detector = NewDetector
    /\ sampler = NoSampler
    /\ reader = NoResult
    /\ heard = NothingHeard
    /\ roundtrip = NoRoundTrip

\* a WorkScheduler on its own: constructed from a configuration
\* (work_scheduler.py:58-86), then set_callbacks with two callables and
\* start_scheduler (lines 172-185), or neither (start_scheduler refuses
\* without callbacks, lines 178-180).  The tick history is kept.
InitSched ==
    /\ status = [s \in Services |-> STOPPED]
    /\ error_message = [s \in Services |-> NoMessage]
    /\ instance = [s \in Services |-> NoInstance]
    /\ \E set \in BOOLEAN :
         /\ start_callback = (IF set THEN "any" ELSE "None")
         /\ stop_callback = (IF set THEN "any" ELSE "None")
         /\ is_running = set
         /\ th = [t \in Threads |->
                    IF t = "loop"
                    THEN [IdleThread EXCEPT !.pc = IF set THEN "loop_top"
                                                   ELSE "dead"]
                    ELSE IdleThread]
    /\ manual_override = FALSE
    /\ services_started = FALSE
    /\ auto_start_enabled \in BOOLEAN
    /\ auto_stop_enabled \in BOOLEAN
    /\ schedule = DefaultSchedule
    /\ lastCall = CallsNotKept
    /\ tickLog = NoTick
    /\ clock = NoReading
    /\ work_time = "None"
    /\ on_triggered = FALSE
    /\ det_hold_start = NoTime
    /\ night_check_active = FALSE
    /\ night_no_person_deadline = NoTime
    /\ off_triggered_once = FALSE
    /\ prev_daytime = "None"
    /\ last_snapshot_tick = NoTime
    /\ frame_idx = 0
    /\ yolo_frame_skip = 0
    /\ FORCE_MODE = "auto"
    /\ mqtt_client = "None"
    /\ gate_pc = "idle"
    /\ frame = NoFrame
    /\ emitted = {}
    /\ seen = NothingSeen
    /\ analyzer = NewAnalyzer
    /\ detector = NewDetector
    /\ sampler = NoSampler
    /\ reader = NoResult
    /\ heard = NothingHeard
    /\ roundtrip = NoRoundTrip

\* the system after MonitoringSystem.__init__ and initialize()
\* (main_app.py:125-157): instances registered, callbacks set, loop started
InitSeq ==
    /\ status = [s \in Services |-> STOPPED]
    /\ error_message = [s \in Services |-> NoMessage]
    /\ instance \in DashboardInstances
    /\ start_callback = "system"
    /\ stop_callback = "system"
    /\ is_running = TRUE
    /\ manual_override = FALSE
    /\ services_started = FALSE
    /\ auto_start_enabled = TRUE
    /\ auto_stop_enabled = TRUE
    /\ schedule = DefaultSchedule
    /\ th = [t \in Threads |->
               IF t = "loop" THEN [IdleThread EXCEPT !.pc = "loop_top"]
               ELSE IdleThread]
    /\ lastCall = CallsNotKept
    /\ tickLog = TicksNotKept
    /\ clock = NoReading
    /\ work_time = "None"
    /\ on_triggered = FALSE
    /\ det_hold_start = NoTime
    /\ night_check_active = FALSE
    /\ night_no_person_deadline = NoTime
    /\ off_triggered_once = FALSE
    /\ prev_daytime = "None"
    /\ last_snapshot_tick = NoTime
    /\ frame_idx = 0
    /\ yolo_frame_skip = 0
    /\ FORCE_MODE = "auto"
    /\ mqtt_client = "None"
    /\ gate_pc = "idle"
    /\ frame = NoFrame
    /\ emitted = {}
    /\ seen = NothingSeen
    /\ analyzer = NewAnalyzer
    /\ detector = NewDetector
    /\ sampler = NoSampler
    /\ reader = NoResult
    /\ heard = NothingHeard
    /\ roundtrip = NoRoundTrip

\* the same system for the interleaved specification: the main_app
\* registration and the one in which every service can start
RunInstances ==
    {[s \in Services |-> IF s = "vibration" THEN VibrationDetector
                         ELSE NoInstance],
     [s \in Services |->
         CASE s = "camera" -> CameraMonitor
           [] s = "vibration" -> VibrationDetector
           [] OTHER -> FryingDataCollector]}

Init ==
    /\ status = [s \in Services |-> STOPPED]
    /\ error_message = [s \in Services |-> NoMessage]
    /\ instance \in RunInstances
    /\ start_callback = "system"
    /\ stop_callback = "system"
    /\ is_running = TRUE
    /\ manual_override = FALSE
    /\ services_started = FALSE
    /\ auto_start_enabled = TRUE
    /\ auto_stop_enabled = TRUE
    /\ schedule = DefaultSchedule
    /\ th = [t \in Threads |->
               IF t = "loop" THEN [IdleThread EXCEPT !.pc = "loop_top"]
               ELSE IdleThread]
    /\ lastCall = CallsNotKept
    /\ tickLog = TicksNotKept
    /\ clock = NoReading
    /\ work_time = "None"
    /\ on_triggered = FALSE
    /\ det_hold_start = NoTime
    /\ night_check_active = FALSE
    /\ night_no_person_deadline = NoTime
    /\ off_triggered_once = FALSE
    /\ prev_daytime = "None"
    /\ last_snapshot_tick = NoTime
    /\ frame_idx = 0
    /\ yolo_frame_skip = 0
    /\ FORCE_MODE = "auto"
    /\ mqtt_client = "None"
    /\ gate_pc = "idle"
    /\ frame = NoFrame
    /\ emitted = {}
    /\ seen = NothingSeen
    /\ analyzer = NewAnalyzer
    /\ detector = NewDetector
    /\ sampler = NoSampler
    /\ reader = NoResult
    /\ heard = NothingHeard
    /\ roundtrip = NoRoundTrip

\* ------------------------------------------------------------------------
\* Specifications

\* (1) SpecSM: a ServiceManager on its own, one caller, its calls one after
\* the other
NextSM ==
    \/ \E reg \in Registrations : RegisterService("api", reg[1], reg[2])
    \/ \E sid \in ApiIds : ApiStartService("api", sid)
    \/ \E sid \in ApiIds : ApiStopService("api", sid)
    \/ ApiStartAll("api")
    \/ ApiStopAll("api")
    \/ ServiceStep("api")

SpecSM == InitSM /\ [][NextSM]_vars

\* (2) SpecSched: a WorkScheduler on its own with arbitrary callbacks, the
\* loop thread and a manual caller interleaved step by step
NextSched ==
    \/ LoopStep("loop")
    \/ EnableManualOverride("api")
    \/ DisableManualOverride("api")
    \/ StopScheduler("api")
    \/ ForceStep("api")

SpecSched == InitSched /\ [][NextSched]_vars

\* (3) SpecSeq: the running system, calls one after the other: a tick or a
\* manual call begins only while no other is in progress
Quiet == \A u \in Threads : th[u].top = "idle"

SeqTick == Quiet /\ LoopTop("loop")
SeqApiStartService == Quiet /\ \E sid \in ApiIds : ApiStartService("api", sid)
SeqApiStopService == Quiet /\ \E sid \in ApiIds : ApiStopService("api", sid)
SeqApiStartAll == Quiet /\ ApiStartAll("api")
SeqApiStopAll == Quiet /\ ApiStopAll("api")
SeqEnableOverride == Quiet /\ EnableManualOverride("api")
SeqDisableOverride == Quiet /\ DisableManualOverride("api")
SeqForceStart == Quiet /\ ForceStartBegin("api")
SeqForceStop == Quiet /\ ForceStopBegin("api")

\* the steps inside a tick or a call
Continue ==
    \/ TickOverride("loop") \/ TickDecide("loop")
    \/ TickCallStart("loop") \/ TickStartReturn("loop")
    \/ TickCallStop("loop") \/ TickStopReturn("loop")
    \/ ForceStartOverride("api") \/ ForceStartCall("api")
    \/ ForceStartReturn("api")
    \/ ForceStopOverride("api") \/ ForceStopCall("api")
    \/ ForceStopReturn("api")
    \/ \E t \in Threads : ServiceStep(t)

NextSeq ==
    \/ SeqTick
    \/ SeqApiStartService \/ SeqApiStopService
    \/ SeqApiStartAll \/ SeqApiStopAll
    \/ SeqEnableOverride \/ SeqDisableOverride
    \/ SeqForceStart \/ SeqForceStop
    \/ Continue

SpecSeq == InitSeq /\ [][NextSeq]_vars

\* (4) Spec: the running system, the scheduler loop thread and a request
\* thread serving the single-service and override routes of
\* main_app.py:228-245,268-282, interleaved step by step
Next ==
    \/ LoopStep("loop")
    \/ \E sid \in ApiIds : ApiStartService("api", sid)
    \/ \E sid \in ApiIds : ApiStopService("api", sid)
    \/ EnableManualOverride("api")
    \/ DisableManualOverride("api")
    \/ \E t \in Threads : ServiceStep(t)

Spec == Init /\ [][Next]_vars

\* (5) SpecClock: is_work_time called directly (as get_status does,
\* work_scheduler.py:281) on a scheduler constructed from a configuration

\* work_hours of a configuration (work_scheduler.py:59-72): the default
\* window, an overnight window, a window of one minute, the whole day
WorkWindows ==
    {[start_hour |-> 8, start_minute |-> 30, end_hour |-> 19, end_minute |-> 0],
     [start_hour |-> 22, start_minute |-> 0, end_hour |-> 6, end_minute |-> 0],
     [start_hour |-> 9, start_minute |-> 0, end_hour |-> 9, end_minute |-> 0],
     [start_hour |-> 0, start_minute |-> 0, end_hour |-> 23, end_minute |-> 59]}

\* enabled_days of a configuration: every day, Monday to Friday, Saturday
\* only, none
EnabledDays == {0..6, 0..4, {5}, {}}

WorkSchedules ==
    {[start_hour |-> w.start_hour, start_minute |-> w.start_minute,
      end_hour |-> w.end_hour, end_minute |-> w.end_minute,
      enabled_days |-> d] : w \in WorkWindows, d \in EnabledDays}

\* times of day datetime.now() may give: the ends of the windows, the second
\* before and after each, and times well inside and outside
ClockTimes ==
    {<<0, 0, 0>>, <<1, 0, 0>>, <<5, 59, 59>>, <<6, 0, 0>>, <<6, 0, 1>>,
     <<8, 29, 59>>, <<8, 30, 0>>, <<9, 0, 0>>, <<9, 0, 1>>, <<12, 0, 0>>,
     <<19, 0, 0>>, <<19, 0, 1>>, <<20, 0, 0>>, <<21, 59, 59>>, <<22, 0, 0>>,
     <<23, 30, 0>>, <<23, 59, 0>>, <<23, 59, 59>>}

\* Monday, Friday, Saturday, Sunday
ClockDays == {0, 4, 5, 6}

ClockReadings ==
    {[hour |-> c[1], minute |-> c[2], second |-> c[3], weekday |-> d] :
        c \in ClockTimes, d \in ClockDays}

InitClock ==
    /\ status = [s \in Services |-> STOPPED]
    /\ error_message = [s \in Services |-> NoMessage]
    /\ instance = [s \in Services |-> NoInstance]
    /\ start_callback = "None"
    /\ stop_callback = "None"
    /\ is_running = FALSE
    /\ manual_override = FALSE
    /\ services_started = FALSE
    /\ auto_start_enabled = TRUE
    /\ auto_stop_enabled = TRUE
    /\ schedule \in WorkSchedules
    /\ th = [t \in Threads |->
               IF t = "loop" THEN [IdleThread EXCEPT !.pc = "dead"]
               ELSE IdleThread]
    /\ lastCall = CallsNotKept
    /\ tickLog = TicksNotKept
    /\ clock = NoReading
    /\ work_time = "None"
    /\ on_triggered = FALSE
    /\ det_hold_start = NoTime
    /\ night_check_active = FALSE
    /\ night_no_person_deadline = NoTime
    /\ off_triggered_once = FALSE
    /\ prev_daytime = "None"
    /\ last_snapshot_tick = NoTime
    /\ frame_idx = 0
    /\ yolo_frame_skip = 0
    /\ FORCE_MODE = "auto"
    /\ mqtt_client = "None"
    /\ gate_pc = "idle"
    /\ frame = NoFrame
    /\ emitted = {}
    /\ seen = NothingSeen
    /\ analyzer = NewAnalyzer
    /\ detector = NewDetector
    /\ sampler = NoSampler
    /\ reader = NoResult
    /\ heard = NothingHeard
    /\ roundtrip = NoRoundTrip

\* is_work_time() (work_scheduler.py:105-130) at some reading of the clock
IsWorkTimeCall ==
    /\ \E n \in ClockReadings :
          /\ clock' = n
          /\ work_time' = Bool2Ret(IsWorkTime(schedule, n))
    /\ UNCHANGED <<smVars, wsVars, th, lastCall, tickLog>>
    /\ UNCHANGED gateVars
    /\ UNCHANGED vibVars

NextClock == IsWorkTimeCall

SpecClock == InitClock /\ [][NextClock]_vars

\* (6) SpecUpdate: a WorkScheduler on its own with arbitrary callbacks, the
\* loop thread interleaved with a thread that toggles the override and
\* updates the schedule (main_app.py:268-298)
NextUpdate ==
    \/ LoopStep("loop")
    \/ EnableManualOverride("api")
    \/ DisableManualOverride("api")
    \/ \E a \in UpdateArgs : UpdateScheduleBegin("api", a)
    \/ UpdateStep("api")

SpecUpdate == InitSched /\ [][NextUpdate]_vars

\* (7) SpecGate: the detection gate on its own.  IntegratedMonitorApp.__init__
\* (JETSON1_INTEGRATED.py:125-133) under each of the three configured modes
\* (config.json "mode", line 35); then frame ticks and the developer
\* panel's button in any order.
InitGate ==
    /\ status = [s \in Services |-> STOPPED]
    /\ error_message = [s \in Services |-> NoMessage]
    /\ instance = [s \in Services |-> NoInstance]
    /\ start_callback = "None"
    /\ stop_callback = "None"
    /\ is_running = FALSE
    /\ manual_override = FALSE
    /\ services_started = FALSE
    /\ auto_start_enabled = TRUE
    /\ auto_stop_enabled = TRUE
    /\ schedule = DefaultSchedule
    /\ th = [t \in Threads |->
               IF t = "loop" THEN [IdleThread EXCEPT !.pc = "dead"]
               ELSE IdleThread]
    /\ lastCall = CallsNotKept
    /\ tickLog = TicksNotKept
    /\ clock = NoReading
    /\ work_time = "None"
    /\ on_triggered = FALSE
    /\ det_hold_start = NoTime
    /\ night_check_active = FALSE
    /\ night_no_person_deadline = NoTime
    /\ off_triggered_once = FALSE
    /\ prev_daytime = "None"
    /\ last_snapshot_tick = NoTime
    /\ frame_idx = 0
    /\ yolo_frame_skip = 0
    /\ FORCE_MODE \in {"auto", "day", "night"}
    /\ mqtt_client \in {"None", "Client"}
    /\ gate_pc = "idle"
    /\ frame = NoFrame
    /\ emitted = {}
    /\ seen = NothingSeen
    /\ analyzer = NewAnalyzer
    /\ detector = NewDetector
    /\ sampler = NoSampler
    /\ reader = NoResult
    /\ heard = NothingHeard
    /\ roundtrip = NoRoundTrip

NextGate ==
    \/ NoFrameTick
    \/ ObserveMode
    \/ ProcessDayMode
    \/ ProcessNightMode
    \/ ForceSnapshotMode

SpecGate == InitGate /\ [][NextGate]_vars

\* (8) SpecVib: a VibrationAnalyzer on its own, used from one thread:
\* constructed (vibration_analyzer.py:55-95), then add_reading, the two
\* statistics calls and reset in any order.
InitVib ==
    /\ status = [s \in Services |-> STOPPED]
    /\ error_message = [s \in Services |-> NoMessage]
    /\ instance = [s \in Services |-> NoInstance]
    /\ start_callback = "None"
    /\ stop_callback = "None"
    /\ is_running = FALSE
    /\ manual_override = FALSE
    /\ services_started = FALSE
    /\ auto_start_enabled = TRUE
    /\ auto_stop_enabled = TRUE
    /\ schedule = DefaultSchedule
    /\ th = [t \in Threads |->
               IF t = "loop" THEN [IdleThread EXCEPT !.pc = "dead"]
               ELSE IdleThread]
    /\ lastCall = CallsNotKept
    /\ tickLog = TicksNotKept
    /\ clock = NoReading
    /\ work_time = "None"
    /\ on_triggered = FALSE
    /\ det_hold_start = NoTime
    /\ night_check_active = FALSE
    /\ night_no_person_deadline = NoTime
    /\ off_triggered_once = FALSE
    /\ prev_daytime = "None"
    /\ last_snapshot_tick = NoTime
    /\ frame_idx = 0
    /\ yolo_frame_skip = 0
    /\ FORCE_MODE = "auto"
    /\ mqtt_client = "None"
    /\ gate_pc = "idle"
    /\ frame = NoFrame
    /\ emitted = {}
    /\ seen = NothingSeen
    /\ analyzer = NewAnalyzer
    /\ detector = NewDetector
    /\ sampler = NoSampler
    /\ reader = NoResult
    /\ heard = NothingHeard
    /\ roundtrip = NoRoundTrip

NextVib ==
    \/ AddReading
    \/ GetCurrentStats
    \/ GetAxisStats
    \/ Reset

SpecVib == InitVib /\ [][NextVib]_vars

\* (9) SpecSession: a VibrationDetector as constructed
\* (vibration_detector.py:34-74) with its sensor initialized; then
\* start_monitoring and stop_monitoring from one thread and the monitoring
\* thread's loop, in any order.
InitSession ==
    /\ status = [s \in Services |-> STOPPED]
    /\ error_message = [s \in Services |-> NoMessage]
    /\ instance = [s \in Services |-> NoInstance]
    /\ start_callback = "None"
    /\ stop_callback = "None"
    /\ is_running = FALSE
    /\ manual_override = FALSE
    /\ services_started = FALSE
    /\ auto_start_enabled = TRUE
    /\ auto_stop_enabled = TRUE
    /\ schedule = DefaultSchedule
    /\ th = [t \in Threads |->
               IF t = "loop" THEN [IdleThread EXCEPT !.pc = "dead"]
               ELSE IdleThread]
    /\ lastCall = CallsNotKept
    /\ tickLog = TicksNotKept
    /\ clock = NoReading
    /\ work_time = "None"
    /\ on_triggered = FALSE
    /\ det_hold_start = NoTime
    /\ night_check_active = FALSE
    /\ night_no_person_deadline = NoTime
    /\ off_triggered_once = FALSE
    /\ prev_daytime = "None"
    /\ last_snapshot_tick = NoTime
    /\ frame_idx = 0
    /\ yolo_frame_skip = 0
    /\ FORCE_MODE = "auto"
    /\ mqtt_client = "None"
    /\ gate_pc = "idle"
    /\ frame = NoFrame
    /\ emitted = {}
    /\ seen = NothingSeen
    /\ analyzer = NewAnalyzer
    /\ detector = NewDetector
    /\ sampler = NoSampler
    /\ reader = NoResult
    /\ heard = NothingHeard
    /\ roundtrip = NoRoundTrip

NextSession ==
    \/ SetAlertCallback
    \/ StartMonitoring
    \/ MonitoringLoop
    \/ LoopExit
    \/ StopMonitoring
    \/ SaveSessionSummary

SpecSession == InitSession /\ [][NextSession]_vars

\* (10) SpecRace: a VibrationAnalyzer shared by the monitoring thread, in
\* add_reading (vibration_detector.py:150), and a dashboard thread, in
\* get_current_stats or get_axis_stats (vibration_detector.py:244,
\* vibration_analyzer.py:287-288, 306); the steps of the two interleave.
InitRace ==
    /\ status = [s \in Services |-> STOPPED]
    /\ error_message = [s \in Services |-> NoMessage]
    /\ instance = [s \in Services |-> NoInstance]
    /\ start_callback = "None"
    /\ stop_callback = "None"
    /\ is_running = FALSE
    /\ manual_override = FALSE
    /\ services_started = FALSE
    /\ auto_start_enabled = TRUE
    /\ auto_stop_enabled = TRUE
    /\ schedule = DefaultSchedule
    /\ th = [t \in Threads |->
               IF t = "loop" THEN [IdleThread EXCEPT !.pc = "dead"]
               ELSE IdleThread]
    /\ lastCall = CallsNotKept
    /\ tickLog = TicksNotKept
    /\ clock = NoReading
    /\ work_time = "None"
    /\ on_triggered = FALSE
    /\ det_hold_start = NoTime
    /\ night_check_active = FALSE
    /\ night_no_person_deadline = NoTime
    /\ off_triggered_once = FALSE
    /\ prev_daytime = "None"
    /\ last_snapshot_tick = NoTime
    /\ frame_idx = 0
    /\ yolo_frame_skip = 0
    /\ FORCE_MODE = "auto"
    /\ mqtt_client = "None"
    /\ gate_pc = "idle"
    /\ frame = NoFrame
    /\ emitted = {}
    /\ seen = NothingSeen
    /\ analyzer = NewAnalyzer
    /\ detector = NewDetector
    /\ sampler = BetweenCalls
    /\ reader = Idle(NoStats)
    /\ heard = NothingHeard
    /\ roundtrip = NoRoundTrip

NextRace ==
    \/ AppendNext
    \/ CountAndCheck
    \/ StatsCopy
    \/ StatsReturn
    \/ AxisNext

SpecRace == InitRace /\ [][NextRace]_vars

\* (11) SpecCsv: _log_reading on its own: a reading of fixed-point values
\* and a session start, the row written for it, and the row parsed again.
InitCsv ==
    /\ status = [s \in Services |-> STOPPED]
    /\ error_message = [s \in Services |-> NoMessage]
    /\ instance = [s \in Services |-> NoInstance]
    /\ start_callback = "None"
    /\ stop_callback = "None"
    /\ is_running = FALSE
    /\ manual_override = FALSE
    /\ services_started = FALSE
    /\ auto_start_enabled = TRUE
    /\ auto_stop_enabled = TRUE
    /\ schedule = DefaultSchedule
    /\ th = [t \in Threads |->
               IF t = "loop" THEN [IdleThread EXCEPT !.pc = "dead"]
               ELSE IdleThread]
    /\ lastCall = CallsNotKept
    /\ tickLog = TicksNotKept
    /\ clock = NoReading
    /\ work_time = "None"
    /\ on_triggered = FALSE
    /\ det_hold_start = NoTime
    /\ night_check_active = FALSE
    /\ night_no_person_deadline = NoTime
    /\ off_triggered_once = FALSE
    /\ prev_daytime = "None"
    /\ last_snapshot_tick = NoTime
    /\ frame_idx = 0
    /\ yolo_frame_skip = 0
    /\ FORCE_MODE = "auto"
    /\ mqtt_client = "None"
    /\ gate_pc = "idle"
    /\ frame = NoFrame
    /\ emitted = {}
    /\ seen = NothingSeen
    /\ analyzer = NewAnalyzer
    /\ detector = NewDetector
    /\ sampler = NoSampler
    /\ reader = NoResult
    /\ heard = NothingHeard
    /\ roundtrip \in [pc : {"reading"}, reading : MicroReadings,
                      row : {<<>>}, start : {0, 500}, parsed : {<<>>}]

NextCsv ==
    \/ WriteRow
    \/ ParseRow

SpecCsv == InitCsv /\ [][NextCsv]_vars

\* ------------------------------------------------------------------------
\* The detector under several callers: start_monitoring and stop_monitoring
\* take no lock (vibration_detector.py:97-135, 201-214), the scheduler
\* thread reaches them through its callbacks and a dashboard thread through
\* the service routes, so the statements of two calls interleave.  th[t].pc
\* is where caller t stands in its call; sampler counts the monitoring
\* threads that have been started and have not left their loop.

\* the most monitoring threads started and not ended
MaxLoops == 2

\* no monitoring thread
NoLoops == [pc |-> "threads", live |-> 0]

\* what the steps of the callers and of the monitoring threads leave alone
notCallerVars ==
    <<smVars, wsVars, lastCall, tickLog, clockVars, gateVars, reader,
      roundtrip>>

\* caller t is at pc, having received ret from its last call
At(pc, ret) == [IdleThread EXCEPT !.pc = pc, !.ret = ret]

\* start_monitoring, lines 107-113: the two checks
StartMonitoringBegin(t) ==
    /\ th[t].pc = "idle"
    /\ \E connected \in BOOLEAN :
          th' = [th EXCEPT ![t] =
                   IF detector.is_monitoring \/ ~connected
                   THEN At("idle", "False")
                   ELSE At("vm_session", "None")]
    /\ UNCHANGED <<analyzer, detector, sampler, heard>>
    /\ UNCHANGED notCallerVars

\* lines 116-123: the session's id, file and start time; the file is
\* opened with 'w' and holds the header only
StartMonitoringSession(t) ==
    /\ th[t].pc = "vm_session"
    /\ detector' = [detector EXCEPT !.session_id = "session",
                                    !.session_start_time = heard.stamp,
                                    !.csv = <<>>]
    /\ th' = [th EXCEPT ![t] = At("vm_reset", "None")]
    /\ UNCHANGED <<analyzer, sampler, heard>>
    /\ UNCHANGED notCallerVars

\* line 126: self.analyzer.reset()
StartMonitoringReset(t) ==
    /\ th[t].pc = "vm_reset"
    /\ analyzer' = ResetOf(analyzer)
    /\ heard' = [heard EXCEPT !.log = <<>>, !.delivered = <<>>]
    /\ th' = [th EXCEPT ![t] = At("vm_flags", "None")]
    /\ UNCHANGED <<detector, sampler>>
    /\ UNCHANGED notCallerVars

\* lines 129-130: is_monitoring and is_running go on
StartMonitoringFlags(t) ==
    /\ th[t].pc = "vm_flags"
    /\ detector' = [detector EXCEPT !.is_monitoring = TRUE,
                                    !.is_running = TRUE]
    /\ th' = [th EXCEPT ![t] = At("vm_thread", "None")]
    /\ UNCHANGED <<analyzer, sampler, heard>>
    /\ UNCHANGED notCallerVars

\* lines 131-135: a new thread runs _monitoring_loop; True is returned
StartMonitoringThread(t) ==
    /\ th[t].pc = "vm_thread"
    /\ sampler.live < MaxLoops
    /\ sampler' = [sampler EXCEPT !.live = @ + 1]
    /\ th' = [th EXCEPT ![t] = At("idle", "True")]
    /\ UNCHANGED <<analyzer, detector, heard>>
    /\ UNCHANGED notCallerVars

\* stop_monitoring, lines 203-209: nothing when not monitoring; else
\* is_running goes off and the caller joins the thread in monitor_thread
StopMonitoringBegin(t) ==
    /\ th[t].pc = "idle"
    /\ IF ~detector.is_monitoring
       THEN /\ th' = [th EXCEPT ![t] = At("idle", "None")]
            /\ UNCHANGED detector
       ELSE /\ detector' = [detector EXCEPT !.is_running = FALSE]
            /\ th' = [th EXCEPT ![t] = At("vm_join", "None")]
    /\ UNCHANGED <<analyzer, sampler, heard>>
    /\ UNCHANGED notCallerVars

\* lines 209-214: the join returns, the thread ended or 2 seconds passed,
\* and the summary is written
StopMonitoringJoin(t) ==
    /\ th[t].pc = "vm_join"
    /\ detector' = [detector EXCEPT !.summary = Summary(analyzer)]
    /\ th' = [th EXCEPT ![t] = At("idle", "None")]
    /\ UNCHANGED <<analyzer, sampler, heard>>
    /\ UNCHANGED notCallerVars

\* _monitoring_loop, lines 139-167: a monitoring thread finds is_running on
\* and does a round; its reading is added and logged to the session file
\* of the moment
MonitoringRound ==
    /\ sampler.live > 0
    /\ detector.is_running
    /\ Len(heard.log) < MaxRows
    /\ Len(detector.csv) < MaxRows
    /\ \E shape \in SessionShapes :
          LET r == Reading(shape, heard.stamp, NoValue, NoValue)
          IN /\ analyzer' = AddReadingTo(analyzer, r)
             /\ detector' =
                   [detector EXCEPT
                      !.latest_reading = r,
                      !.csv = Append(@, LogRow(r, detector.session_start_time,
                                               StampUnit, AccelUnit, FALSE))]
             /\ heard' =
                   [HeardAdd(heard, analyzer, analyzer', r) EXCEPT
                      !.delivered =
                         CheckAlerts(@, detector.alert_callback,
                                     analyzer'.alerts, r.timestamp)]
    /\ UNCHANGED <<th, sampler>>
    /\ UNCHANGED notCallerVars

\* lines 139 and 169-170: a monitoring thread finds is_running off, sets
\* is_monitoring off and ends
C31_LoopIgnoresFlag ==
    /\ sampler.live > MaxLoops
    /\ UNCHANGED vars
MonitoringExit ==
    /\ sampler.live > 0
    /\ ~detector.is_running
    /\ detector' = [detector EXCEPT !.is_monitoring = FALSE]
    /\ sampler' = [sampler EXCEPT !.live = @ - 1]
    /\ UNCHANGED <<th, analyzer, heard>>
    /\ UNCHANGED notCallerVars

\* (12) SpecStarts: a VibrationDetector as constructed, its sensor
\* initialized; the scheduler thread and a dashboard thread call
\* start_monitoring and stop_monitoring, statement by statement, while the
\* monitoring threads run.
InitStarts ==
    /\ status = [s \in Services |-> STOPPED]
    /\ error_message = [s \in Services |-> NoMessage]
    /\ instance = [s \in Services |-> NoInstance]
    /\ start_callback = "None"
    /\ stop_callback = "None"
    /\ is_running = FALSE
    /\ manual_override = FALSE
    /\ services_started = FALSE
    /\ auto_start_enabled = TRUE
    /\ auto_stop_enabled = TRUE
    /\ schedule = DefaultSchedule
    /\ th = [t \in Threads |-> IdleThread]
    /\ lastCall = CallsNotKept
    /\ tickLog = TicksNotKept
    /\ clock = NoReading
    /\ work_time = "None"
    /\ on_triggered = FALSE
    /\ det_hold_start = NoTime
    /\ night_check_active = FALSE
    /\ night_no_person_deadline = NoTime
    /\ off_triggered_once = FALSE
    /\ prev_daytime = "None"
    /\ last_snapshot_tick = NoTime
    /\ frame_idx = 0
    /\ yolo_frame_skip = 0
    /\ FORCE_MODE = "auto"
    /\ mqtt_client = "None"
    /\ gate_pc = "idle"
    /\ frame = NoFrame
    /\ emitted = {}
    /\ seen = NothingSeen
    /\ analyzer = NewAnalyzer
    /\ detector = NewDetector
    /\ sampler = NoLoops
    /\ reader = NoResult
    /\ heard = NothingHeard
    /\ roundtrip = NoRoundTrip

NextStarts ==
    \/ \E t \in Threads : StartMonitoringBegin(t)
    \/ \E t \in Threads : StartMonitoringSession(t)
    \/ \E t \in Threads : StartMonitoringReset(t)
    \/ \E t \in Threads : StartMonitoringFlags(t)
    \/ \E t \in Threads : StartMonitoringThread(t)
    \/ \E t \in Threads : StopMonitoringBegin(t)
    \/ \E t \in Threads : StopMonitoringJoin(t)
    \/ MonitoringRound
    \/ MonitoringExit

SpecStarts == InitStarts /\ [][NextStarts]_vars

\* ------------------------------------------------------------------------
\* The scheduler's threads: start_scheduler and stop_scheduler
\* (work_scheduler.py:172-185, 220-230).  Every start_scheduler that passes
\* its checks makes a new thread for _scheduler_loop; the threads that can
\* be alive at a time are these, "dead" while not started or ended.
SchedulerLoops == {"loop", "loop2"}

\* the thread a start_scheduler call starts: one that is not alive
NewLoop == IF th["loop"].pc = "dead" THEN "loop" ELSE "loop2"

\* start_scheduler, lines 172-185: nothing while is_running or without the
\* callbacks; else is_running goes on and a new thread enters the loop
StartScheduler(t) ==
    /\ th[t].pc = "idle"
    /\ ~is_running
    /\ start_callback # "None" /\ stop_callback # "None"
    /\ NewLoop \in DOMAIN th
    /\ th[NewLoop].pc = "dead"
    /\ is_running' = TRUE
    /\ th' = [th EXCEPT ![NewLoop] = [IdleThread EXCEPT !.pc = "loop_top"]]
    /\ UNCHANGED <<smVars, start_callback, stop_callback, manual_override,
                   services_started, auto_start_enabled, auto_stop_enabled,
                   schedule>>
    /\ History(t)

\* (13) SpecLoops: a WorkScheduler as constructed, with or without its
\* callbacks; start_scheduler and stop_scheduler called one after the other
\* from one thread, the loop threads running step by step.  stop_scheduler
\* returns when its join does, after at most 2 seconds, while a loop thread
\* sleeps 60 seconds between two ticks (line 216).
InitLoops ==
    /\ status = [s \in Services |-> STOPPED]
    /\ error_message = [s \in Services |-> NoMessage]
    /\ instance = [s \in Services |-> NoInstance]
    /\ start_callback \in {"None", "any"}
    /\ stop_callback = start_callback
    /\ is_running = FALSE
    /\ manual_override = FALSE
    /\ services_started = FALSE
    /\ auto_start_enabled = TRUE
    /\ auto_stop_enabled = TRUE
    /\ schedule = DefaultSchedule
    /\ th = [t \in SchedulerLoops \cup {"api"} |->
               IF t = "api" THEN IdleThread
               ELSE [IdleThread EXCEPT !.pc = "dead"]]
    /\ lastCall = CallsNotKept
    /\ tickLog = TicksNotKept
    /\ clock = NoReading
    /\ work_time = "None"
    /\ on_triggered = FALSE
    /\ det_hold_start = NoTime
    /\ night_check_active = FALSE
    /\ night_no_person_deadline = NoTime
    /\ off_triggered_once = FALSE
    /\ prev_daytime = "None"
    /\ last_snapshot_tick = NoTime
    /\ frame_idx = 0
    /\ yolo_frame_skip = 0
    /\ FORCE_MODE = "auto"
    /\ mqtt_client = "None"
    /\ gate_pc = "idle"
    /\ frame = NoFrame
    /\ emitted = {}
    /\ seen = NothingSeen
    /\ analyzer = NewAnalyzer
    /\ detector = NewDetector
    /\ sampler = NoSampler
    /\ reader = NoResult
    /\ heard = NothingHeard
    /\ roundtrip = NoRoundTrip

NextLoops ==
    \/ StartScheduler("api")
    \/ StopScheduler("api")
    \/ \E t \in SchedulerLoops : LoopStep(t)

SpecLoops == InitLoops /\ [][NextLoops]_vars

\* (14) SpecCancel: the two background loops and their cancellation.  A
\* VibrationDetector and a WorkScheduler as constructed, the callbacks set;
\* one thread calls start_monitoring, stop_monitoring, start_scheduler and
\* stop_scheduler one after the other while the monitoring thread and the
\* scheduler's loop thread run; start_scheduler is not called before the
\* loop thread of the last start has ended.  FairCancel adds what the
\* claim of termination supposes: a thread that can take a step of its
\* loop eventually does (the pending read or sleep returns), and a join
\* returns (it has a timeout, vibration_detector.py:209).
InitCancel ==
    /\ status = [s \in Services |-> STOPPED]
    /\ error_message = [s \in Services |-> NoMessage]
    /\ instance = [s \in Services |-> NoInstance]
    /\ start_callback = "any"
    /\ stop_callback = "any"
    /\ is_running = FALSE
    /\ manual_override = FALSE
    /\ services_started = FALSE
    /\ auto_start_enabled = TRUE
    /\ auto_stop_enabled = TRUE
    /\ schedule = DefaultSchedule
    /\ th = [t \in Threads |->
               IF t = "api" THEN IdleThread
               ELSE [IdleThread EXCEPT !.pc = "dead"]]
    /\ lastCall = CallsNotKept
    /\ tickLog = TicksNotKept
    /\ clock = NoReading
    /\ work_time = "None"
    /\ on_triggered = FALSE
    /\ det_hold_start = NoTime
    /\ night_check_active = FALSE
    /\ night_no_person_deadline = NoTime
    /\ off_triggered_once = FALSE
    /\ prev_daytime = "None"
    /\ last_snapshot_tick = NoTime
    /\ frame_idx = 0
    /\ yolo_frame_skip = 0
    /\ FORCE_MODE = "auto"
    /\ mqtt_client = "None"
    /\ gate_pc = "idle"
    /\ frame = NoFrame
    /\ emitted = {}
    /\ seen = NothingSeen
    /\ analyzer = NewAnalyzer
    /\ detector = NewDetector
    /\ sampler = NoLoops
    /\ reader = NoResult
    /\ heard = NothingHeard
    /\ roundtrip = NoRoundTrip

NextCancel ==
    \/ StartMonitoringBegin("api")
    \/ StartMonitoringSession("api")
    \/ StartMonitoringReset("api")
    \/ StartMonitoringFlags("api")
    \/ StartMonitoringThread("api")
    \/ StopMonitoringBegin("api")
    \/ StopMonitoringJoin("api")
    \/ MonitoringRound
    \/ MonitoringExit
    \/ StartScheduler("api")
    \/ StopScheduler("api")
    \/ LoopStep("loop")

SpecCancel == InitCancel /\ [][NextCancel]_vars

FairCancel ==
    /\ SpecCancel
    /\ WF_vars(MonitoringRound)
    /\ WF_vars(MonitoringExit)
    /\ WF_vars(StopMonitoringJoin("api"))
    /\ WF_vars(LoopStep("loop"))

\* ------------------------------------------------------------------------
\* The vibration service: ServiceManager.start_service('vibration') and
\* stop_service('vibration') (service_manager.py:67-161) with the
\* VibrationDetector behind them (_start_vibration_service,
\* _stop_vibration_service, lines 249-260), the calls made one after the
\* other while the monitoring thread runs.

\* what the calls on the vibration service leave alone
notServiceVars ==
    <<instance, wsVars, th, lastCall, tickLog, clockVars, gateVars, reader,
      roundtrip>>

\* start_service('vibration'), lines 83-120, and start_monitoring,
\* vibration_detector.py:107-135.  On RUNNING it returns at line 85; else
\* STARTING, the message cleared, and the detector decides: refused while
\* it is monitoring or its sensor is not connected (ERROR, "Failed to
\* start"), else a session, the analyzer reset and a new thread (RUNNING)
StartVibrationService ==
    /\ status["vibration"] # RUNNING
    /\ StartMethod("vibration", instance["vibration"].attrs)
          = "start_monitoring"
    /\ \E connected \in BOOLEAN :
          IF detector.is_monitoring \/ ~connected
          THEN /\ status' = [status EXCEPT !["vibration"] = ERROR]
               /\ error_message' =
                     [error_message EXCEPT !["vibration"] = FailedToStart]
               /\ UNCHANGED <<analyzer, detector, sampler, heard>>
          ELSE /\ sampler.live < MaxLoops
               /\ status' = [status EXCEPT !["vibration"] = RUNNING]
               /\ error_message' =
                     [error_message EXCEPT !["vibration"] = NoMessage]
               /\ detector' = [detector EXCEPT
                                  !.session_id = "session",
                                  !.session_start_time = heard.stamp,
                                  !.csv = <<>>,
                                  !.is_monitoring = TRUE,
                                  !.is_running = TRUE]
               /\ analyzer' = ResetOf(analyzer)
               /\ sampler' = [sampler EXCEPT !.live = @ + 1]
               /\ heard' = [heard EXCEPT !.log = <<>>, !.delivered = <<>>]
    /\ UNCHANGED notServiceVars

\* stop_service('vibration'), lines 135-161, and stop_monitoring,
\* vibration_detector.py:201-214.  On STOPPED it returns at line 137; else
\* STOPPING, and the detector: nothing when it is not monitoring, else
\* is_running off, the join, which returns when the thread has ended or
\* after 2 seconds, and the summary; then STOPPED
StopVibrationService ==
    /\ status["vibration"] # STOPPED
    /\ StopMethod("vibration", instance["vibration"].attrs)
          = "stop_monitoring"
    /\ status' = [status EXCEPT !["vibration"] = STOPPED]
    /\ IF ~detector.is_monitoring
       THEN UNCHANGED <<detector, sampler>>
       ELSE \E ended \in BOOLEAN :
               IF ended /\ sampler.live > 0
               THEN /\ detector' = [detector EXCEPT
                                       !.is_running = FALSE,
                                       !.is_monitoring = FALSE,
                                       !.summary = Summary(analyzer)]
                    /\ sampler' = [sampler EXCEPT !.live = @ - 1]
               ELSE /\ detector' = [detector EXCEPT
                                       !.is_running = FALSE,
                                       !.summary = Summary(analyzer)]
                    /\ UNCHANGED sampler
    /\ UNCHANGED <<error_message, analyzer, heard>>
    /\ UNCHANGED notServiceVars

\* (15) SpecVibrationService: a ServiceManager with a VibrationDetector
\* registered as 'vibration' (main_app.py:139-150); start_service and
\* stop_service on it in any order, the monitoring thread, and the
\* registration of an alert callback.
InitVibrationService ==
    /\ status = [s \in Services |-> STOPPED]
    /\ error_message = [s \in Services |-> NoMessage]
    /\ instance = [s \in Services |->
                     IF s = "vibration" THEN VibrationDetector
                     ELSE NoInstance]
    /\ start_callback = "None"
    /\ stop_callback = "None"
    /\ is_running = FALSE
    /\ manual_override = FALSE
    /\ services_started = FALSE
    /\ auto_start_enabled = TRUE
    /\ auto_stop_enabled = TRUE
    /\ schedule = DefaultSchedule
    /\ th = [t \in Threads |->
               IF t = "loop" THEN [IdleThread EXCEPT !.pc = "dead"]
               ELSE IdleThread]
    /\ lastCall = CallsNotKept
    /\ tickLog = TicksNotKept
    /\ clock = NoReading
    /\ work_time = "None"
    /\ on_triggered = FALSE
    /\ det_hold_start = NoTime
    /\ night_check_active = FALSE
    /\ night_no_person_deadline = NoTime
    /\ off_triggered_once = FALSE
    /\ prev_daytime = "None"
    /\ last_snapshot_tick = NoTime
    /\ frame_idx = 0
    /\ yolo_frame_skip = 0
    /\ FORCE_MODE = "auto"
    /\ mqtt_client = "None"
    /\ gate_pc = "idle"
    /\ frame = NoFrame
    /\ emitted = {}
    /\ seen = NothingSeen
    /\ analyzer = NewAnalyzer
    /\ detector = NewDetector
    /\ sampler = NoLoops
    /\ reader = NoResult
    /\ heard = NothingHeard
    /\ roundtrip = NoRoundTrip

NextVibrationService ==
    \/ SetAlertCallback
    \/ StartVibrationService
    \/ StopVibrationService
    \/ MonitoringRound
    \/ MonitoringExit

SpecVibrationService ==
    InitVibrationService /\ [][NextVibrationService]_vars

\* (16) SpecAuto: the running system left to its scheduler: the loop thread
\* alone, its ticks and the start_all_services / stop_all_services calls
\* its callbacks make; no request reaches the dashboard.
NextAuto ==
    \/ LoopStep("loop")
    \/ ServiceStep("loop")

SpecAuto == InitSeq /\ [][NextAuto]_vars

\* (17) SpecReschedule: a WorkScheduler on its own, the loop thread
\* interleaved with a request thread in update_schedule
\* (main_app.py:285-298), called with well-formed times.  The record of the
\* call's arguments also remembers, for the properties, the schedule at the
\* moment of the call.
WellFormedArgs ==
    {a \in UpdateArgs :
        /\ Truthy(a.start_time) => Len(Split(a.start_time.text, ":")) = 2
        /\ Truthy(a.end_time) => Len(Split(a.end_time.text, ":")) = 2}

Remembering(a) ==
    [start_time |-> a.start_time, end_time |-> a.end_time,
     enabled_days |-> a.enabled_days, old |-> schedule]

NextReschedule ==
    \/ LoopStep("loop")
    \/ \E a \in WellFormedArgs : UpdateScheduleBegin("api", Remembering(a))
    \/ UpdateStep("api")

SpecReschedule == InitSched /\ [][NextReschedule]_vars

\* ------------------------------------------------------------------------
\* Properties of the ServiceManager (under SpecSM unless said otherwise)

\* the step is a step of thread t
Steps(t) == th'[t] # th[t]

\* thread t's start_service / stop_service returns in this step
CallEnds(t) == Steps(t) /\ CallEnded(th[t], th'[t])

\* the status changes the specification lists
C1_ListedEdges ==
    {<<STOPPED, STARTING>>, <<STARTING, RUNNING>>, <<STARTING, ERROR>>,
     <<RUNNING, STOPPING>>, <<STOPPING, STOPPED>>, <<STOPPING, ERROR>>}

\* C1 as stated: every change of a service's status is one of the six listed
\* edges.
C1_OnlyListedEdges ==
    [][\A s \in Services :
          status'[s] # status[s] => <<status[s], status'[s]>> \in C1_ListedEdges]_vars

\* C1, amended: in calls made one after the other every change of a service's
\* status is one of the six listed edges or leaves ERROR for STARTING (a
\* start after a failure) or for STOPPING (a stop after a failure); RUNNING is
\* entered from STARTING only.
C1_StatusEdges ==
    [][\A s \in Services :
          status'[s] # status[s] =>
             /\ <<status[s], status'[s]>> \in
                   C1_ListedEdges \cup {<<ERROR, STARTING>>, <<ERROR, STOPPING>>}
             /\ status'[s] = RUNNING => status[s] = STARTING]_vars

\* a start_service that follows a failed start of the same service has set
\* STARTING over ERROR
C1_RestartAfterError ==
    \E s \in Services :
       /\ lastCall = [op |-> "start", sid |-> s, ret |-> "False", how |-> "raised"]
       /\ th["api"].pc = "ss_clear_err"
       /\ th["api"].sid = s
       /\ status[s] = STARTING

\* C3: start_service on a RUNNING service returns True from its status check,
\* reaching no handle and changing neither status nor error_message; so the
\* start_service that follows a successful start_service of the same id
\* returns True and makes no second transition into RUNNING; stop_service on
\* a STOPPED service returns from its status check and changes nothing.
C3_Idempotent ==
    [][\A t \in Threads :
          /\ (Steps(t) /\ th[t].pc = "ss_check" /\ status[th[t].sid] = RUNNING) =>
                /\ UNCHANGED <<status, error_message>>
                /\ lastCall' = [op |-> "start", sid |-> th[t].sid,
                                ret |-> "True", how |-> "early"]
          /\ (Steps(t) /\ th[t].pc = "ss_check" /\ th[t].sid = lastCall.sid
                /\ lastCall.op = "start" /\ lastCall.ret = "True") =>
                /\ status[th[t].sid] = RUNNING
                /\ UNCHANGED <<status, error_message>>
                /\ lastCall'.ret = "True"
                /\ lastCall'.how = "early"
          /\ (Steps(t) /\ th[t].pc = "sp_check" /\ status[th[t].sid] = STOPPED) =>
                /\ UNCHANGED <<status, error_message>>
                /\ lastCall' = [op |-> "stop", sid |-> th[t].sid,
                                ret |-> "None", how |-> "early"]]_vars

\* a second start_service of a running service has returned True
C3_SecondStartReturned ==
    \E s \in Services :
       /\ lastCall = [op |-> "start", sid |-> s, ret |-> "True", how |-> "early"]
       /\ status[s] = RUNNING
       /\ th["api"].pc = "idle"
       /\ th["api"].ret = "True"

\* the paths of a start_service whose handle did not start
FailedStarts == {"failed", "raised", "noinst", "nomethod"}

\* C4: a start_service whose handle returned a failure value or raised, or
\* whose id has no instance, returns False with status ERROR and an
\* error_message; a stop_service whose handle raised returns normally with
\* status ERROR and the error text; no call ends in an exception.
C4_FailuresAreRecorded ==
    [][\A t \in Threads :
          /\ th'[t].ret # "raised"
          /\ (CallEnds(t) /\ th[t].pc \in {"ss_check", "ss_set_running"}) =>
                th[t].how \notin FailedStarts
          /\ (CallEnds(t) /\ th[t].pc = "ss_set_message") =>
                /\ th[t].how \in FailedStarts
                /\ lastCall'.op = "start"
                /\ lastCall'.ret = "False"
                /\ status'[th[t].sid] = ERROR
                /\ error_message'[th[t].sid] # NoMessage
          /\ (CallEnds(t) /\ th[t].how = "raised" /\ th[t].pc = "sp_set_message") =>
                /\ lastCall'.op = "stop"
                /\ lastCall'.ret = "None"
                /\ status'[th[t].sid] = ERROR
                /\ error_message'[th[t].sid] = HandleError]_vars

\* a start_service whose handle raised has returned False
C4_RaisedStartReturned ==
    \E s \in Services :
       /\ lastCall = [op |-> "start", sid |-> s, ret |-> "False", how |-> "raised"]
       /\ status[s] = ERROR
       /\ error_message[s] = HandleError
       /\ th["api"].pc = "idle"
       /\ th["api"].ret = "False"

\* C5 as stated: when start_all_services returns it has attempted exactly the
\* ids with a registered instance, and it returns True exactly when every
\* start of a registered service returned True.
C5_StartAllOverRegistered ==
    [][\A t \in Threads :
          (Steps(t) /\ th[t].agg = "start_all" /\ th'[t].agg = "none") =>
             LET att == th'[t].att
                 registered == {s \in Services : instance[s].registered}
             IN  /\ {att[i][1] : i \in 1..Len(att)} = registered
                 /\ (th'[t].ret = "True") <=>
                       (\A i \in 1..Len(att) :
                           att[i][1] \in registered => att[i][2])]_vars

\* ------------------------------------------------------------------------
\* Properties of the running system

\* thread t is between its write of STARTING / STOPPING for service s and
\* its write of the final status
Between(t, s) ==
    /\ th[t].sid = s
    /\ th[t].pc \in {"ss_clear_err", "ss_invoke", "ss_set_running",
                     "ss_set_error", "sp_invoke", "sp_set_stopped",
                     "sp_set_error"}

\* thread u's next step reads or writes the status of service s or reaches
\* its handle
Accesses(u, s) ==
    /\ th[u].sid = s
    /\ th[u].pc \in {"ss_check", "ss_set_starting", "ss_invoke",
                     "ss_set_running", "ss_set_error", "sp_check",
                     "sp_set_stopping", "sp_invoke", "sp_set_stopped",
                     "sp_set_error"}

\* C2 as stated (under Spec): while one thread's start_service/stop_service
\* is between setting STARTING/STOPPING and setting its final status, no
\* other thread's call reads or writes that service's status or reaches its
\* handle.
C2_CallsSerialize ==
    [][\A t \in Threads : \A u \in Threads \ {t} : \A s \in Services :
          (Between(t, s) /\ Accesses(u, s)) => ~Steps(u)]_vars

\* C6 as stated (under SpecSeq): whenever no call is in progress,
\* services_started is true exactly when some service is RUNNING.
C6_TracksAggregate ==
    Quiet => (services_started <=> \E s \in Services : status[s] = RUNNING)

\* ------------------------------------------------------------------------
\* Properties of the WorkScheduler (under SpecSched)

C8_OverrideSuspends ==
    [][(/\ manual_override
        /\ th["api"].pc = "idle"
        /\ th["api"].ret # "raised"
        /\ Steps("loop")) =>
          /\ th["loop"].pc \notin {"cb_start_call", "cb_stop_call"}
          /\ services_started' = services_started]_vars

\* C9: when the start callback raised or returned False, or the stop
\* callback raised, the loop goes on to its next tick with services_started
\* and is_running as they were; and the next tick, if it finds the same
\* clock condition with the override off, invokes the same callback again.
C9_FailedCallbackRetried ==
    [][LET r == th["loop"]
           r2 == th'["loop"]
       IN  Steps("loop") =>
             /\ (\/ r.pc = "cb_start_ret" /\ r.ret \in {"False", "raised"}
                 \/ r.pc = "cb_stop_ret" /\ r.ret = "raised") =>
                   /\ r2.pc = "loop_top"
                   /\ UNCHANGED <<services_started, is_running>>
             /\ (r.pc = "tick_decide" /\ tickLog.cb = "start"
                   /\ tickLog.ret \in {"False", "raised"} /\ r2.cwt) =>
                   r2.pc = "cb_start_call"
             /\ (r.pc = "tick_decide" /\ tickLog.cb = "stop"
                   /\ tickLog.ret = "raised" /\ ~r2.cwt) =>
                   r2.pc = "cb_stop_call"]_vars

\* the tick after a start callback that raised has invoked the start
\* callback again
C9_StartRetried ==
    /\ tickLog = [cb |-> "start", ret |-> "raised"]
    /\ th["loop"].pc = "cb_start_ret"
    /\ th["loop"].cbs = <<"start">>
    /\ ~services_started
    /\ is_running

\* C10: force_start and force_stop reach their callback with manual_override
\* set; force_start sets services_started exactly when the callback returned
\* True and returns the callback's result; force_stop clears services_started
\* after its callback returned; without the callback neither gets past its
\* first check, so neither sets manual_override or services_started.
C10_ForceCalls ==
    [][LET r == th["api"]
           r2 == th'["api"]
       IN  /\ r.pc \in {"fs_call", "fs_ret", "fp_call", "fp_ret"} =>
                manual_override
           /\ start_callback = "None" =>
                r.pc \notin {"fs_override", "fs_call", "fs_ret"}
           /\ stop_callback = "None" =>
                r.pc \notin {"fp_override", "fp_call", "fp_ret"}
           /\ (Steps("api") /\ r.pc = "fs_ret") =>
                /\ r.ret \in {"True", "False"}
                /\ services_started' = (services_started \/ r.ret = "True")
                /\ r2.pc = "idle"
                /\ r2.ret = r.ret
           /\ (Steps("api") /\ r.pc = "fp_ret") =>
                /\ r.ret = "None"
                /\ services_started' = FALSE
                /\ r2.pc = "idle"
           /\ (Steps("api") /\ r.pc \notin {"fs_ret", "fp_ret"}) =>
                services_started' = services_started
           /\ (Steps("api") /\ manual_override' /\ ~manual_override) =>
                r.pc \in {"fs_override", "fp_override"}]_vars

\* force_start has returned True with manual_override and services_started
\* set
C10_ForceStarted ==
    /\ th["api"].pc = "idle"
    /\ th["api"].ret = "True"
    /\ manual_override
    /\ services_started

\* ------------------------------------------------------------------------
\* Properties of is_work_time (under SpecClock)

\* time of day a is not after time of day b, as <<hour, minute, second>>
TimeLeq(a, b) ==
    \/ a[1] < b[1]
    \/ a[1] = b[1] /\ a[2] < b[2]
    \/ a[1] = b[1] /\ a[2] = b[2] /\ a[3] <= b[3]

ClockTime == <<clock.hour, clock.minute, clock.second>>
WindowStart == <<schedule.start_hour, schedule.start_minute, 0>>
WindowEnd == <<schedule.end_hour, schedule.end_minute, 0>>
Overnight == ~TimeLeq(WindowStart, WindowEnd)

\* the schedule is the window h1:m1 - h2:m2 and the call read h:m:00 on an
\* enabled day
WindowAt(h1, m1, h2, m2, h, m) ==
    /\ work_time # "None"
    /\ WindowStart = <<h1, m1, 0>>
    /\ WindowEnd = <<h2, m2, 0>>
    /\ ClockTime = <<h, m, 0>>
    /\ clock.weekday \in schedule.enabled_days

\* C11: on an enabled weekday is_work_time is start <= now <= end when
\* start <= end and (now >= start or now <= end) when start > end, both ends
\* included; 08:30-19:00 gives true at 12:00 and false at 20:00, 22:00-06:00
\* gives true at 23:30 and at 01:00 and false at 12:00.
C11_WindowRule ==
    /\ (work_time # "None" /\ clock.weekday \in schedule.enabled_days) =>
          work_time = Bool2Ret(IF ~Overnight
                               THEN TimeLeq(WindowStart, ClockTime)
                                    /\ TimeLeq(ClockTime, WindowEnd)
                               ELSE TimeLeq(WindowStart, ClockTime)
                                    \/ TimeLeq(ClockTime, WindowEnd))
    /\ WindowAt(8, 30, 19, 0, 12, 0) => work_time = "True"
    /\ WindowAt(8, 30, 19, 0, 20, 0) => work_time = "False"
    /\ WindowAt(8, 30, 19, 0, 19, 0) => work_time = "True"
    /\ WindowAt(8, 30, 19, 0, 8, 30) => work_time = "True"
    /\ WindowAt(22, 0, 6, 0, 23, 30) => work_time = "True"
    /\ WindowAt(22, 0, 6, 0, 1, 0) => work_time = "True"
    /\ WindowAt(22, 0, 6, 0, 12, 0) => work_time = "False"

\* is_work_time has answered True at 19:00:00, the end of 08:30-19:00
C11_TrueAtWindowEnd ==
    /\ WindowAt(8, 30, 19, 0, 19, 0)
    /\ work_time = "True"

\* the weekday before the one the call read
DayBefore == (clock.weekday + 6) % 7

\* C12: is_work_time is false at every time of a weekday not in
\* enabled_days, also after midnight inside an overnight window that began
\* on an enabled day; after midnight inside an overnight window it is true
\* on an enabled weekday whether or not the day before is enabled.
C12_WeekdayGate ==
    /\ (work_time # "None" /\ clock.weekday \notin schedule.enabled_days) =>
          work_time = "False"
    /\ (work_time # "None" /\ Overnight /\ TimeLeq(ClockTime, WindowEnd)
          /\ clock.weekday \in schedule.enabled_days) =>
          work_time = "True"

\* is_work_time has answered False on a disabled Sunday at 01:00 inside
\* 22:00-06:00, Saturday being enabled
C12_FalseInTailOfEnabledDay ==
    /\ work_time = "False"
    /\ Overnight
    /\ ClockTime = <<1, 0, 0>>
    /\ clock.weekday \notin schedule.enabled_days
    /\ DayBefore \in schedule.enabled_days

\* ------------------------------------------------------------------------
\* Properties of the override toggles and update_schedule (under SpecUpdate)

\* C13: a step that changes manual_override changes nothing else; a step of
\* update_schedule changes only the schedule, and of the schedule only the
\* start, end or enabled_days whose argument was given; neither changes
\* services_started or invokes a callback: services_started changes and a
\* callback is invoked only in the loop's own steps after its decision.
C13_OwnFieldOnly ==
    [][LET r == th["api"] IN
       /\ manual_override' # manual_override =>
             UNCHANGED <<smVars, start_callback, stop_callback, is_running,
                         services_started, auto_start_enabled,
                         auto_stop_enabled, schedule, th>>
       /\ Steps("api") =>
             /\ UNCHANGED <<smVars, start_callback, stop_callback, is_running,
                            manual_override, services_started,
                            auto_start_enabled, auto_stop_enabled>>
             /\ th'["loop"] = th["loop"]
       /\ schedule' # schedule =>
             /\ Steps("api")
             /\ r.top = "update_schedule"
             /\ (schedule'.start_hour # schedule.start_hour
                   \/ schedule'.start_minute # schedule.start_minute) =>
                   ~r.arg.start_time.none
             /\ (schedule'.end_hour # schedule.end_hour
                   \/ schedule'.end_minute # schedule.end_minute) =>
                   ~r.arg.end_time.none
             /\ schedule'.enabled_days # schedule.enabled_days =>
                   ~r.arg.enabled_days.none
       /\ (services_started' # services_started
             \/ th'["loop"].cbs \notin {th["loop"].cbs, <<>>}) =>
             /\ Steps("loop")
             /\ th["loop"].pc \in {"cb_start_call", "cb_stop_call",
                                   "cb_start_ret", "cb_stop_ret"}]_vars

\* update_schedule(start_time="22:00") has returned with the override set
\* and services_started still true: only the start of the window changed
C13_StartUpdated ==
    /\ th["api"].pc = "idle"
    /\ schedule = [DefaultSchedule EXCEPT !.start_hour = 22, !.start_minute = 0]
    /\ manual_override
    /\ services_started

\* ------------------------------------------------------------------------
\* Properties of the detection gate (under SpecGate)

\* the step processes a frame in day mode, in night mode
DayStep == gate_pc = "process" /\ gate_pc' = "idle" /\ prev_daytime = "True"

NightStep == gate_pc = "process" /\ gate_pc' = "idle" /\ prev_daytime = "False"

\* the step is the mode bookkeeping of a tick that finds the mode changed
ToNight ==
    gate_pc = "idle" /\ gate_pc' = "process" /\ prev_daytime = "True"
    /\ prev_daytime' = "False"

ToDay ==
    gate_pc = "idle" /\ gate_pc' = "process" /\ prev_daytime = "False"
    /\ prev_daytime' = "True"

\* the step calls force_snapshot_mode while stage 1 is on
Forced ==
    gate_pc = "idle" /\ gate_pc' = "idle" /\ night_check_active
    /\ ~night_check_active'

PowerOn == ~on_triggered /\ on_triggered'

PowerOff == ~off_triggered_once /\ off_triggered_once' /\ "OFF" \in emitted'

\* C14, as stated: within one Day interval on_triggered goes from false to
\* true at most once, and only on a tick whose frame shows a person and ends
\* a run of frames, none of them without a person, that has lasted at least
\* DETECTION_HOLD_SEC; on_triggered is cleared only by a mode transition.
C14_OnAfterUnbrokenFrames ==
    [][/\ PowerOn =>
            /\ DayStep
            /\ "ON" \in emitted'
            /\ seen'.ons = 1
            /\ seen'.hold_from # NoTime
            /\ frame.now - seen'.hold_from >= DETECTION_HOLD_SEC
       /\ (on_triggered /\ ~on_triggered') => ToDay]_vars

\* C14, amended: the run is one of the frames the detector was run on (every
\* third frame of day mode): on_triggered goes from false to true at most
\* once in a Day interval, and only on a tick on which the detector finds a
\* person and has found one on every frame it was run on for at least
\* DETECTION_HOLD_SEC; on_triggered is cleared only by a mode transition.
C14_OnAfterUnbrokenDetections ==
    [][/\ PowerOn =>
            /\ DayStep
            /\ "ON" \in emitted'
            /\ seen'.ons = 1
            /\ yolo_frame_skip' = 0
            /\ seen'.hold_from # NoTime
            /\ seen'.det_from # NoTime
            /\ frame.now - seen'.det_from >= DETECTION_HOLD_SEC
       /\ (on_triggered /\ ~on_triggered') => ToDay]_vars

\* C14 happens: "ON" has just been sent, for the first time in the interval
C14_PoweredOn ==
    on_triggered /\ emitted = {"ON"} /\ seen.ons = 1 /\ prev_daytime = "True"

\* the frame of a day-mode step shows nobody; the detector is run on it
Nobody == seen'.hold_from = NoTime

DetectorRun == yolo_frame_skip' = 0

\* C15, as stated: in day mode a frame without a person, at any frame tick,
\* unsets det_hold_start at once and leaves on_triggered as it was.
C15_AnyAbsentFrameResets ==
    [][(DayStep /\ Nobody) =>
          /\ det_hold_start' = NoTime
          /\ on_triggered' = on_triggered]_vars

\* C15, amended: in day mode a frame without a person on which the detector
\* is run (every third frame) unsets det_hold_start at once, whatever it
\* was, and leaves on_triggered as it was; a frame on which the detector is
\* not run leaves both alone.  So det_hold_start is always the start of the
\* current unbroken run of detections, and "ON" is sent only when a run
\* that began after the last detected absence has lasted
\* DETECTION_HOLD_SEC.
C15_DetectedAbsenceResets ==
    [][DayStep =>
          /\ (DetectorRun /\ Nobody) =>
                /\ det_hold_start' = NoTime
                /\ on_triggered' = on_triggered
          /\ ~DetectorRun =>
                /\ det_hold_start' = det_hold_start
                /\ on_triggered' = on_triggered
          /\ det_hold_start' = seen'.det_from
          /\ PowerOn =>
                /\ det_hold_start # NoTime
                /\ det_hold_start = seen.det_from
                /\ frame.now - det_hold_start >= DETECTION_HOLD_SEC]_vars

\* C15 happens: after "ON" was sent in this Day interval the detector has
\* found nobody; the hold is unset and on_triggered still set
C15_ResetKeepsLatch ==
    /\ prev_daytime = "True"
    /\ gate_pc = "idle"
    /\ seen.ons = 1
    /\ on_triggered
    /\ yolo_frame_skip = 0
    /\ seen.hold_from = NoTime
    /\ det_hold_start = NoTime

\* the step ends stage 1 at the deadline (lines 571-582)
DeadlineEndsStage1 == NightStep /\ night_check_active /\ ~night_check_active'

\* C16, as stated: in a Night interval "OFF" is sent at most once, and once
\* if the gate has left stage 1 in that interval.
C16_OffInEveryNight ==
    prev_daytime = "False" =>
        /\ seen.offs <= 1
        /\ seen.left1 => seen.offs = 1

\* C16, amended: "OFF" is sent only by the step that ends stage 1 at the
\* deadline, with off_triggered_once unset before and set after, and not a
\* second time in the Night interval; every such step with
\* off_triggered_once unset sends it; off_triggered_once is otherwise set
\* only by force_snapshot_mode, which sends nothing.
C16_OffOnceAtDeadline ==
    [][/\ "OFF" \in emitted' =>
            /\ DeadlineEndsStage1
            /\ PowerOff
            /\ seen.offs = 0
            /\ seen'.offs = 1
       /\ (DeadlineEndsStage1 /\ ~off_triggered_once) => PowerOff
       /\ (~off_triggered_once /\ off_triggered_once') =>
            \/ PowerOff
            \/ gate_pc = "idle" /\ gate_pc' = "idle" /\ emitted' = {}]_vars

\* C16 happens: stage 1 has just ended at the deadline and "OFF" was sent
C16_PoweredOff ==
    /\ prev_daytime = "False"
    /\ emitted = {"OFF"}
    /\ seen.offs = 1
    /\ seen.left1
    /\ off_triggered_once
    /\ ~night_check_active

\* stage 1 ends and the gate stays in night mode
Stage1Ends ==
    night_check_active /\ ~night_check_active' /\ prev_daytime' = "False"

\* a night-mode tick leaves stage 1 on exactly when the deadline, as this
\* tick's detection has left it, is still ahead
StaysWhileAhead ==
    (NightStep /\ night_check_active) =>
        (night_check_active' <=>
            /\ night_no_person_deadline' # NoTime
            /\ frame.now < night_no_person_deadline')

\* C17, as stated: within a Night interval stage 1 ends on the first
\* night-mode tick with now >= night_no_person_deadline and on no other
\* occasion.
C17_EndsOnlyAtDeadline ==
    [][/\ Stage1Ends =>
            /\ NightStep
            /\ night_no_person_deadline # NoTime
            /\ frame.now >= night_no_person_deadline
       /\ StaysWhileAhead]_vars

\* C17, amended: within a Night interval stage 1 ends on the first
\* night-mode tick with now >= night_no_person_deadline, or when
\* force_snapshot_mode is called, and on no other occasion.
C17_EndsAtDeadlineOrForced ==
    [][/\ Stage1Ends =>
            \/ /\ NightStep
               /\ night_no_person_deadline # NoTime
               /\ frame.now >= night_no_person_deadline
               /\ night_no_person_deadline' = NoTime
            \/ /\ Forced
               /\ night_no_person_deadline' = NoTime
               /\ off_triggered_once'
       /\ StaysWhileAhead]_vars

\* C17 happens: the second or a later frame of a Night interval has found
\* the deadline passed and ended stage 1
C17_Stage2AtDeadline ==
    /\ prev_daytime = "False"
    /\ gate_pc = "idle"
    /\ ~night_check_active
    /\ night_no_person_deadline = NoTime
    /\ seen.left1
    /\ seen.offs = 1
    /\ seen.night_frames >= 2
    /\ "OFF" \in emitted

\* C18: a stage-1 tick that detects a person sets night_no_person_deadline
\* to now + NIGHT_CHECK_MINUTES and sends nothing; "OFF" is sent only by a
\* tick that detects nobody, at least NIGHT_CHECK_MINUTES after the latest
\* of the entry into night mode and the detections since.
C18_OffAfterPersonFree ==
    [][/\ (NightStep /\ night_check_active /\ seen'.found) =>
            /\ night_check_active'
            /\ night_no_person_deadline' = frame.now + NIGHT_CHECK_MINUTES
            /\ emitted' = {}
            /\ off_triggered_once' = off_triggered_once
       /\ "OFF" \in emitted' =>
            /\ NightStep
            /\ night_check_active
            /\ ~seen'.found
            /\ seen.free_from # NoTime
            /\ seen'.free_from = seen.free_from
            /\ frame.now - seen.free_from >= NIGHT_CHECK_MINUTES]_vars

\* C18 happens: the second or a later frame of a Night interval showed a
\* person and the deadline was moved
C18_DeadlineMoved ==
    /\ prev_daytime = "False"
    /\ gate_pc = "idle"
    /\ night_check_active
    /\ seen.found
    /\ seen.night_frames >= 2
    /\ seen.free_from # NoTime
    /\ night_no_person_deadline = seen.free_from + NIGHT_CHECK_MINUTES

C20_WarmupAfterEveryEntry ==
    [][("SNAP" \in emitted') =>
          /\ NightStep
          /\ seen'.night_frames > WARMUP_FRAMES]_vars

\* C21: a snapshot is saved only by a stage-2 tick of night mode whose
\* frame has a moving region, and only if no snapshot was saved before or
\* the last one was saved at least SAVE_COOLDOWN_SEC earlier on the monotonic
\* clock, whatever the wall clock and the mode did in between.
C21_SnapshotsSpaced ==
    [][("SNAP" \in emitted') =>
          /\ NightStep
          /\ ~night_check_active
          /\ seen'.moved
          /\ \/ seen.last_snap = NoTime
             \/ frame.tick - seen.last_snap >= SAVE_COOLDOWN_SEC
          /\ seen'.last_snap = frame.tick]_vars

\* C21 happens: a stage-2 frame with a moving region, past the warm-up, was
\* not saved because the last snapshot is too recent
C21_HeldBack ==
    /\ prev_daytime = "False"
    /\ gate_pc = "idle"
    /\ ~night_check_active
    /\ frame_idx > WARMUP_FRAMES
    /\ seen.moved
    /\ emitted = {}
    /\ seen.last_snap # NoTime
    /\ frame.tick - seen.last_snap < SAVE_COOLDOWN_SEC

\* the step is a tick that gets no frame: the camera or the detector is
\* not there, or read() fails
MissingFrame ==
    gate_pc = "idle" /\ gate_pc' = "idle" /\ ~frame'.ok /\ frame' # frame

\* C22: a tick that gets no frame changes no field of the detection state
\* and emits nothing.
C22_MissingFrameIsNoOp ==
    [][MissingFrame =>
          /\ UNCHANGED <<on_triggered, det_hold_start, night_check_active,
                         night_no_person_deadline, off_triggered_once,
                         prev_daytime, last_snapshot_tick, frame_idx,
                         yolo_frame_skip>>
          /\ emitted' = {}]_vars

\* C22 happens: the last tick of a day-mode hold got no frame and the hold
\* is still running
C22_HoldAcrossGap ==
    /\ gate_pc = "idle"
    /\ ~frame.ok
    /\ prev_daytime = "True"
    /\ det_hold_start # NoTime
    /\ emitted = {}

\* what the last step handed to mqtt_client.publish: the payloads of its
\* publish_mqtt calls, if there is a client (lines 692-696)
Published == UNION {PublishMqtt(m) : m \in emitted \cap {"ON", "OFF"}}

OffLatched == ~off_triggered_once /\ off_triggered_once'

\* C23, as stated: every change of on_triggered from false to true comes
\* with a publish of "ON", every such change of off_triggered_once with a
\* publish of "OFF", and nothing is published on any other occasion.
C23_PublishExactlyOnPower ==
    [][/\ PowerOn <=> "ON" \in Published'
       /\ OffLatched <=> "OFF" \in Published']_vars

\* C23, amended: nothing but "ON" and "OFF" is published, "ON" only by the
\* day-mode tick that sets on_triggered and "OFF" only by the night-mode
\* tick that sets off_triggered_once; with an MQTT client each of those
\* ticks publishes its payload; force_snapshot_mode sets off_triggered_once
\* and publishes nothing; without a client nothing is ever published.
C23_PublishOnPowerTicks ==
    [][/\ "ON" \in Published' => (PowerOn /\ DayStep)
       /\ "OFF" \in Published' => (OffLatched /\ NightStep)
       /\ (PowerOn /\ mqtt_client # "None") => Published' = {"ON"}
       /\ (OffLatched /\ NightStep /\ mqtt_client # "None") =>
             Published' = {"OFF"}
       /\ (OffLatched /\ ~NightStep) =>
             (gate_pc = "idle" /\ gate_pc' = "idle" /\ Published' = {})
       /\ mqtt_client = "None" => Published' = {}]_vars

\* C23 happens: with a client, the tick that set on_triggered has published
\* "ON"
C23_OnPublished ==
    /\ mqtt_client = "Client"
    /\ on_triggered
    /\ seen.ons = 1
    /\ Published = {"ON"}

\* ------------------------------------------------------------------------
\* Properties of the vibration analyzer (under SpecVib)

\* the smaller of two numbers
Least(a, b) == IF a <= b THEN a ELSE b

\* the most recent min(n, window_size) of the readings added since the
\* analyzer was made or reset, oldest first
Recent ==
    SubSeq(heard.log,
           Len(heard.log) - Least(Len(heard.log), window_size) + 1,
           Len(heard.log))

\* C24: after any sequence of add_reading calls each of the five buffers
\* holds at most window_size entries, namely its field of the most recent
\* min(n, window_size) readings in arrival order, and what
\* get_current_stats and get_axis_stats return is computed from those
\* readings alone: after window_size + 1 appends the first reading
\* contributes to no value.
C24_WindowIsRecentFifo ==
    /\ Len(analyzer.magnitude_buffer) <= window_size
    /\ analyzer.magnitude_buffer =
          [i \in 1..Len(Recent) |-> Recent[i].magnitude]
    /\ analyzer.x_buffer = [i \in 1..Len(Recent) |-> Recent[i].x_axis]
    /\ analyzer.y_buffer = [i \in 1..Len(Recent) |-> Recent[i].y_axis]
    /\ analyzer.z_buffer = [i \in 1..Len(Recent) |-> Recent[i].z_axis]
    /\ analyzer.timestamp_buffer =
          [i \in 1..Len(Recent) |-> Recent[i].timestamp]
    /\ reader.result.kind = "stats" =>
          reader.result =
             CurrentStats([i \in 1..Len(Recent) |-> Recent[i].magnitude],
                          [i \in 1..Len(Recent) |-> Recent[i].timestamp])
    /\ reader.result.kind = "axis" =>
          reader.result =
             AxisStats([i \in 1..Len(Recent) |-> Recent[i].x_axis],
                       [i \in 1..Len(Recent) |-> Recent[i].y_axis],
                       [i \in 1..Len(Recent) |-> Recent[i].z_axis])

\* window_size + 1 readings were added, the first the strongest and the
\* earliest of them, and the statistics returned show neither its magnitude
\* nor its timestamp
C24_FirstEvicted ==
    /\ Len(heard.log) = window_size + 1
    /\ \A i \in 2..Len(heard.log) :
          /\ heard.log[i].magnitude < heard.log[1].magnitude
          /\ heard.log[i].timestamp > heard.log[1].timestamp
    /\ reader.result.kind = "stats"
    /\ reader.result.magnitude.max < heard.log[1].magnitude
    /\ reader.result.sample_count = window_size
    /\ reader.result.duration_seconds <
          heard.log[Len(heard.log)].timestamp - heard.log[1].timestamp

\* the step is an add_reading call: it alone raises total_samples by one
Added == analyzer'.total_samples = analyzer.total_samples + 1

\* the reading the step added
AddedReading == heard'.log[Len(heard'.log)]

\* the reading the step added qualifies for an alert of the kind: it reaches
\* a severity band, or it is a spike against the window
Qualifies(kind) ==
    IF kind = "threshold" THEN Severity(AddedReading.magnitude) # "None"
    ELSE IsSpike(analyzer'.magnitude_buffer, AddedReading.magnitude)

\* no alert of the kind was raised within the alert_cooldown before the
\* reading the step added
NoneRecent(kind) ==
    \/ heard.raised[kind] = NoTime
    \/ AddedReading.timestamp - heard.raised[kind] > alert_cooldown

\* C25: alert cooldown per kind of alert.  A qualifying reading appends an
\* alert of its kind when no alert of that kind was raised within the
\* preceding alert_cooldown, and appends none otherwise.
C25_CooldownPerKind ==
    [][Added =>
          \A kind \in {"threshold", "spike"} :
             kind \in KindsRaised(analyzer, analyzer') <=>
                (Qualifies(kind) /\ NoneRecent(kind))]_vars

\* C26: the two checks are cooldown-limited independently.  A spike is
\* alerted unless a spike alert is recent, whatever threshold alerts were
\* raised, the one for the same reading included; and a threshold alert is
\* raised unless a threshold alert is recent, whatever spike alerts were.
C26_ChecksIndependent ==
    [][Added =>
          /\ (Qualifies("spike") /\ NoneRecent("spike")) =>
                "spike" \in KindsRaised(analyzer, analyzer')
          /\ (Qualifies("threshold") /\ NoneRecent("threshold")) =>
                "threshold" \in KindsRaised(analyzer, analyzer')]_vars

\* ------------------------------------------------------------------------
\* Properties of the monitoring session (under SpecSession)

\* the step is the return of a stop_monitoring call that stopped a session
StopReturned == reader.pc = "join" /\ reader'.pc = "idle"

\* the step is a start_monitoring call that started a session
SessionStarted == ~detector.is_monitoring /\ detector'.is_monitoring

\* the buffers and the alert list are empty and total_samples is 0
Cleared(a) ==
    /\ a.magnitude_buffer = <<>>
    /\ a.x_buffer = <<>>
    /\ a.y_buffer = <<>>
    /\ a.z_buffer = <<>>
    /\ a.timestamp_buffer = <<>>
    /\ a.alerts = <<>>
    /\ a.total_samples = 0

\* C27 as stated: stop_monitoring writes the session summary and then
\* resets the analyzer, so that after it returns the buffers and the alert
\* list are empty and total_samples is 0.
C27_StopResetsAnalyzer ==
    [][StopReturned =>
          /\ detector'.summary = Summary(analyzer)
          /\ Cleared(analyzer')]_vars

\* C27 as the code has it: stop_monitoring writes the summary of the
\* analyzer as it is and leaves the analyzer unchanged; it is
\* start_monitoring that resets it, so that a session starts with empty
\* buffers, an empty alert list and total_samples 0.
C27_StartResetsAnalyzer ==
    [][/\ StopReturned =>
             /\ detector'.summary = Summary(analyzer)
             /\ analyzer' = analyzer
       /\ SessionStarted => Cleared(analyzer')]_vars

\* a session was stopped, its summary counts the samples, and the analyzer
\* still holds them and the alert
C27_StoppedWithData ==
    /\ reader.pc = "idle"
    /\ ~detector.is_monitoring
    /\ sampler.pc = "none"
    /\ detector.summary.kind = "summary"
    /\ detector.summary.total_samples = MaxRows
    /\ analyzer.total_samples = MaxRows
    /\ Len(analyzer.magnitude_buffer) = MaxRows
    /\ Len(analyzer.alerts) > 0

\* C29: during a session every reading obtained from the sensor has exactly
\* one row in the session CSV, the rows in arrival order, and in each row
\* the temperature (the frequency) column is empty if and only if the
\* reading has no temperature (no frequency); a value that is there, 0
\* included, is rendered.
C29_RowPerReading ==
    /\ Len(detector.csv) = Len(heard.log)
    /\ \A i \in 1..Len(detector.csv) :
          /\ detector.csv[i].timestamp =
                FixedText(heard.log[i].timestamp, StampUnit, 3, FALSE)
          /\ detector.csv[i].magnitude =
                FixedText(heard.log[i].magnitude, AccelUnit, 6, FALSE)
          /\ detector.csv[i].temperature.kind = "empty" <=>
                heard.log[i].temperature = NoValue
          /\ detector.csv[i].frequency.kind = "empty" <=>
                heard.log[i].frequency = NoValue

\* ------------------------------------------------------------------------
\* Properties of the analyzer under two threads (under SpecRace)

\* the step is the return of a statistics call
ReaderReturned == reader' # reader /\ reader'.pc = "idle"

\* the window after the first n readings: the last min(n, window_size)
WindowAfter(n) == SubSeq(heard'.log, n - Least(n, window_size) + 1, n)

\* a field of the readings of a window
Entries(w, f) == [i \in 1..Len(w) |-> w[i][f]]

\* C28: a reader concurrent with add_reading never observes a partially
\* updated window: what a statistics call returns is computed from buffers
\* that all hold the same readings, that is, it is the statistics of the
\* window as it was after some whole number of readings.
C28_ReaderSeesWholeWindow ==
    [][ReaderReturned =>
          \E n \in 0..Len(heard'.log) :
             \/ reader'.result =
                   CurrentStats(Entries(WindowAfter(n), "magnitude"),
                                Entries(WindowAfter(n), "timestamp"))
             \/ reader'.result =
                   AxisStats(Entries(WindowAfter(n), "x_axis"),
                             Entries(WindowAfter(n), "y_axis"),
                             Entries(WindowAfter(n), "z_axis"))]_vars

\* ------------------------------------------------------------------------
\* Properties of the session log's rows (under SpecCsv)

\* the tolerances: 10^-6, and half a thousandth
Millionth == <<1, 1000000>>
HalfThousandth == <<5, 10000>>

\* the parsed column is within the tolerance of the reading's field
Close(f, tol) ==
    Within(roundtrip.parsed[1][f], roundtrip.reading[f], MicroUnit, tol)

\* C30 as stated: a reading written with _log_reading and parsed again
\* yields timestamp, x_axis, y_axis, z_axis and magnitude each within 10^-6
\* of the original value.
C30_RoundTripWithinMillionth ==
    roundtrip.pc = "parsed" =>
       \A f \in {"timestamp", "x_axis", "y_axis", "z_axis", "magnitude"} :
          Close(f, Millionth)

\* C30 as the code has it: the three axes and the magnitude, written with
\* six decimals, come back within 10^-6; the timestamp, written with three
\* decimals, comes back within half a millisecond.
C30_RoundTripAsWritten ==
    roundtrip.pc = "parsed" =>
       /\ \A f \in {"x_axis", "y_axis", "z_axis", "magnitude"} :
             Close(f, Millionth)
       /\ Close("timestamp", HalfThousandth)

\* a reading with a negative x and a timestamp between two milliseconds was
\* written and parsed: the x came back, the timestamp only to the
\* millisecond
C30_MillisecondsOnly ==
    /\ roundtrip.pc = "parsed"
    /\ roundtrip.reading.x_axis < 0
    /\ roundtrip.reading.timestamp % 1000 = 499
    /\ Close("x_axis", Millionth)
    /\ ~Close("timestamp", Millionth)

\* ------------------------------------------------------------------------
\* The spike check (under SpecVib)

\* the window without the reading the step added: what _check_spike
\* averages, list(self.magnitude_buffer)[:-1]
Others == ButLast(analyzer'.magnitude_buffer)

\* the reading the step added is more than 3 times the mean of the others
\* in the window, and that mean is more than 0.1 m/s^2 (1 unit)
ThriceTheMean ==
    /\ Others # <<>>
    /\ AddedReading.magnitude * Len(Others) > 3 * Sum(Others)
    /\ Sum(Others) > Len(Others)

\* the cooldown the spike check of the step is subject to: the time of the
\* last alert, the threshold alert of the same reading included, is more
\* than alert_cooldown before the reading
SpikeCooledDown ==
    /\ "threshold" \notin KindsRaised(analyzer, analyzer')
    /\ AddedReading.timestamp - analyzer.last_alert_time > alert_cooldown

\* the step raised a spike alert of severity high for the reading it added
SpikeRaised ==
    /\ "spike" \in KindsRaised(analyzer, analyzer')
    /\ analyzer'.alerts[Len(analyzer'.alerts)] =
          Alert(AddedReading, "spike", "high")

\* C32 as stated: for every window content and every new reading the
\* spike check raises a Spike alert of severity high, subject to cooldown,
\* if and only if the magnitude is greater than 3 times the mean of the
\* window excluding the current sample and that mean is greater than 0.1;
\* no other condition on the window decides the outcome.
C32_RatioAloneDecides ==
    [][Added => (SpikeRaised <=> (ThriceTheMean /\ SpikeCooledDown))]_vars

\* C32, amended: ... if and only if the window, the current sample
\* included, holds at least SPIKE_MIN_SAMPLES samples, the magnitude is
\* greater than 3 times the mean of the others and that mean is greater
\* than 0.1.
C32_RatioOnEnoughSamples ==
    [][Added =>
          (SpikeRaised <=>
              /\ Len(analyzer'.magnitude_buffer) >= SPIKE_MIN_SAMPLES
              /\ ThriceTheMean
              /\ SpikeCooledDown)]_vars

\* a spike alert stands last in the list, raised for the last reading, which
\* is below every threshold and completes a window of SPIKE_MIN_SAMPLES
C32_SpikeBelowThresholds ==
    /\ Len(heard.log) = SPIKE_MIN_SAMPLES
    /\ analyzer.alerts # <<>>
    /\ analyzer.alerts[Len(analyzer.alerts)].alert_type = "spike"
    /\ analyzer.alerts[Len(analyzer.alerts)].severity = "high"
    /\ analyzer.alerts[Len(analyzer.alerts)].timestamp = heard.stamp
    /\ Severity(heard.log[Len(heard.log)].magnitude) = "None"

\* ------------------------------------------------------------------------
\* The analyzer across sessions (under SpecSession)

\* C39: reset() returns the analyzer to the alerting state of a freshly
\* constructed one: after start_monitoring has reset the analyzer for a new
\* session, the first reading of that session whose magnitude reaches the
\* low threshold raises a threshold alert, however recently an alert was
\* raised in the previous session.
C39_FirstReadingAlerts ==
    [][(/\ Added
        /\ detector.is_monitoring
        /\ heard.log = <<>>
        /\ AddedReading.magnitude >= alert_thresholds.low)
          => /\ "threshold" \in KindsRaised(analyzer, analyzer')
             /\ analyzer'.alerts =
                   <<Alert(AddedReading, "threshold",
                           Severity(AddedReading.magnitude))>>]_vars

\* ------------------------------------------------------------------------
\* The alert callback (under SpecSession)

\* C38: each alert appended by the analyzer is delivered to the registered
\* alert callback at most once, however many further readings are processed
\* while that alert remains the most recent one.
C38_DeliveredAtMostOnce ==
    \A i, j \in 1..Len(heard.delivered) :
       heard.delivered[i] = heard.delivered[j] => i = j

\* ------------------------------------------------------------------------
\* The monitoring threads of a detector (under SpecStarts)

\* C35: at most one vibration monitoring loop thread is live for a detector
\* at any time, and at most one session's CSV is being written, for every
\* interleaving of concurrent start_monitoring calls and for stop_monitoring
\* followed by start_monitoring while the old loop is still finishing.
C35_OneMonitoringThread == sampler.live <= 1

\* ------------------------------------------------------------------------
\* The scheduler's loop threads (under SpecLoops)

\* the loop threads that are alive
LiveLoops == {t \in SchedulerLoops : th[t].pc # "dead"}

\* C34: after any sequence of start_scheduler and stop_scheduler calls at
\* most one _scheduler_loop thread is live and evaluating ticks, also when
\* start_scheduler is called after stop_scheduler's bounded join has
\* returned but before the previous loop thread has woken from its sleep
\* and re-read is_running.
C34_OneSchedulerLoop == Cardinality(LiveLoops) <= 1

\* ------------------------------------------------------------------------
\* Cancellation of the loops (under FairCancel)

\* C31: after stop_monitoring (stop_scheduler) has cleared the loop's
\* running flag, and unless a start sets it again, the loop thread reads the
\* flag at the top of its next iteration and ends: eventually no
\* monitoring thread is left and is_monitoring is false, and eventually
\* the scheduler's loop thread has ended; the caller of
\* stop_monitoring, waiting in its join, returns whether or not the thread
\* has ended.
C31_LoopsEndAfterStop ==
    /\ (~detector.is_running /\ sampler.live > 0)
          ~> (sampler.live = 0 /\ ~detector.is_monitoring)
    /\ (~is_running /\ th["loop"].pc # "dead")
          ~> (th["loop"].pc = "dead" \/ is_running)
    /\ (th["api"].pc = "vm_join") ~> (th["api"].pc = "idle")

\* both loops have run and have ended after their stop calls: the tick of
\* the scheduler had started the services, the session has rows and its
\* summary
C31_BothLoopsEnded ==
    /\ ~is_running
    /\ services_started
    /\ th["loop"].pc = "dead"
    /\ ~detector.is_running
    /\ ~detector.is_monitoring
    /\ sampler.live = 0
    /\ detector.csv # <<>>
    /\ detector.summary.kind = "summary"

\* ------------------------------------------------------------------------
\* The error message of a service (under SpecSM)

\* C37: a service reports an error message only while it is in ERROR:
\* error_message is non-null implies status = ERROR, so that a service
\* that has since been stopped or restarted exposes no stale error through
\* get_service_status.  Stated for the states in which no ServiceManager
\* call is in progress, which is when the weakest reading of the claim
\* applies.
C37_MessageOnlyInError ==
    Quiet =>
       \A s \in Services :
          error_message[s] # NoMessage => status[s] = ERROR

\* ------------------------------------------------------------------------
\* The status of the vibration service (under SpecVibrationService)

\* C36: the recorded status of the vibration service matches the detector's
\* real state: whenever no ServiceManager call is in progress, status is
\* RUNNING if and only if the detector's monitoring loop is active
\* (is_monitoring true), for every sequence of start_service and
\* stop_service calls, a stop whose join times out and a start issued
\* while the detector is already monitoring included.
C36_StatusMatchesDetector ==
    status["vibration"] = RUNNING <=> detector.is_monitoring

\* ------------------------------------------------------------------------
\* The automatic stop (under SpecAuto)

\* the step ends a tick of the loop that was not suspended by the override
TickEnds ==
    /\ th["loop"].pc \in {"tick_decide", "cb_start_ret", "cb_stop_ret"}
    /\ th'["loop"].pc = "loop_top"

\* C33: automatic stop is effective.  With manual_override false and
\* auto_stop_enabled true, a tick that finds the clock outside the work
\* hours leaves no service RUNNING that the scheduler's start callback
\* caused to run (here every running service was started by it), also when
\* the preceding start_all_services returned False because only some of
\* the services started.
C33_AutoStopEffective ==
    [][(TickEnds /\ ~th'["loop"].cwt /\ ~manual_override
           /\ auto_stop_enabled)
          => \A s \in Services : status'[s] # RUNNING]_vars

\* ------------------------------------------------------------------------
\* update_schedule against the loop (under SpecReschedule)

\* the schedule update_schedule(a) makes of the schedule sch when it runs
\* alone (work_scheduler.py:311-322)
Updated(sch, a) ==
    [start_hour |-> IF Truthy(a.start_time)
                    THEN ParseInt(Split(a.start_time.text, ":")[1])
                    ELSE sch.start_hour,
     start_minute |-> IF Truthy(a.start_time)
                      THEN ParseInt(Split(a.start_time.text, ":")[2])
                      ELSE sch.start_minute,
     end_hour |-> IF Truthy(a.end_time)
                  THEN ParseInt(Split(a.end_time.text, ":")[1])
                  ELSE sch.end_hour,
     end_minute |-> IF Truthy(a.end_time)
                    THEN ParseInt(Split(a.end_time.text, ":")[2])
                    ELSE sch.end_minute,
     enabled_days |-> IF a.enabled_days.none THEN sch.enabled_days
                      ELSE a.enabled_days.days]

\* the step is the loop's evaluation of is_work_time (line 195)
LoopEvaluates ==
    th["loop"].pc = "tick_decide" /\ th'["loop"] # th["loop"]

\* C40: update_schedule is atomic with respect to the scheduler loop:
\* every is_work_time evaluation the loop thread makes while another
\* thread runs update_schedule uses the complete old schedule or the
\* complete new schedule, never a mixture.
C40_UpdateIsAtomic ==
    [][(LoopEvaluates /\ th["api"].top = "update_schedule")
          => \/ schedule = th["api"].arg.old
             \/ schedule = Updated(th["api"].arg.old, th["api"].arg)]_vars

====
